---- MODULE Spec2Model ----
(***************************************************************************)
(* Tool registry, dispatcher and per-resource handlers of the Paperless    *)
(* MCP server (internal/mcp), together with the part of the backing API    *)
(* client (internal/paperless) the handlers call, the process start-up of  *)
(* main and the HTTP transport's authentication gate and health endpoint.  *)
(*                                                                         *)
(* A JSON number reaches a handler as a float64.  Numbers are modelled in  *)
(* halves: the integer h stands for the float h/2, so 3 is 1.5 and 4 is    *)
(* 2.0, and Go's int(x) is truncation toward zero.                         *)
(***************************************************************************)
EXTENDS Integers, Sequences, FiniteSets, TLC

VARIABLES
    tools,      \* the registry: tool name -> Tool
    pc,         \* "idle", or the call in progress: "executed", "direct", ...
    tool,       \* the tool name given to ExecuteTool
    args,       \* the argument bag of the call
    resp,       \* how the backing API answers during the call
    invoked,    \* the handlers the call invoked, in order
    hResult,    \* what the handler returned
    hErr,
    sent,       \* the requests the call sent to the backing API, in order
    result,     \* what ExecuteTool returned
    err,
    phase,      \* where the process is: "start", "created", "stdio", "http", "package"
    cfg,        \* the configuration the Server was made with
    names,      \* every name RegisterTool was called with so far
    regTool,    \* the Tool given to the RegisterTool call in progress
    passed,     \* the argument bags handed to handlers, in order
    reply,      \* what the SDK-facing handler wrapper returns for the call
    http,       \* the HTTP exchange in progress at the transport
    other,      \* a second HTTP exchange, begun while the first waits
    env,        \* the environment variables of the process
    conf,       \* what config.Load returned: the Config and the error
    mpc,        \* where the main goroutine is, in main and in StartStdio/StartHTTP
    ctxDone,    \* main's context has been cancelled
    notified,   \* the signal channels signal.Notify has registered
    sigChans,   \* the signal channels' buffers: main's and the transport's
    sigpc,      \* main's signal goroutine: "none", "recv", "done"
    errChan,    \* the buffer of the transport's error channel
    gpc,        \* the serving goroutine: "none", "serving", "send", "done"
    gErr,       \* what ServeStdio / ListenAndServe returned
    shutdowns,  \* how many times httpServer.Shutdown was called
    ret,        \* what StartStdio / StartHTTP returned
    delivered   \* how many signals the process was sent

\* the state of the registry and of one tool call
callVars == <<tools, pc, tool, args, resp, invoked, hResult, hErr, sent, result, err,
              phase, cfg, names, regTool, passed, reply, http, other>>
\* the state of the process: configuration, goroutines, channels
procVars == <<env, conf, mpc, ctxDone, notified, sigChans, sigpc, errChan, gpc, gErr,
              shutdowns, ret, delivered>>

vars == <<tools, pc, tool, args, resp, invoked, hResult, hErr, sent, result, err,
          phase, cfg, names, regTool, passed, reply, http, other, env, conf, mpc, ctxDone,
          notified, sigChans, sigpc, errChan, gpc, gErr, shutdowns, ret, delivered>>

-----------------------------------------------------------------------------
(* Bounds of the model *)

\* numeric arguments range over the floats -MaxHalf/2 .. MaxHalf/2
MaxHalf == 3
\* page sizes up to MaxPageSize + MaxOver are tried, plus one far beyond
MaxOver == 1
\* the envelope's count ranges over 0 .. MaxCount
MaxCount == 1
\* entity ids the backing API answers with range over 1 .. MaxEntity
MaxEntity == 2
\* the process is sent at most MaxSignals signals
MaxSignals == 2

-----------------------------------------------------------------------------
(* Program constants *)

DefaultPage == 1
DefaultPageSize == 25
MaxPageSize == 100
ClientDefaultPageSize == 25
ClientMaxPageSize == 100

ErrToolNotFound == "tool not found: %s"
ErrToolExecFailed == "tool execution failed: %w"

ServerName == "Paperless MCP Server"
ServerVersion == "1.0.0"
StreamableHTTPEndpoint == "/mcp"
HealthEndpoint == "/health"

-----------------------------------------------------------------------------
(* JSON values of the argument bag and of request bodies *)

Num(h) == [t |-> "num", v |-> h]
Str(s) == [t |-> "str", v |-> s]
Bool(b) == [t |-> "bool", v |-> b]
Null == [t |-> "null", v |-> 0]
Arr(s) == [t |-> "arr", v |-> s]

\* Go: int(x) for a float64 x, truncation toward zero
IntOf(h) == IF h >= 0 THEN h \div 2 ELSE -((-h) \div 2)
\* an int marshalled back to JSON
IntVal(n) == Num(2 * n)

Has(a, k) == k \in DOMAIN a
\* Go: v, ok := args[k].(float64)
IsFloat(a, k) == Has(a, k) /\ a[k].t = "num"
\* Go: v, ok := args[k].(string)
IsString(a, k) == Has(a, k) /\ a[k].t = "str"
\* Go: v, ok := args[k].(bool)
IsBool(a, k) == Has(a, k) /\ a[k].t = "bool"
\* Go: v, ok := args[k].([]interface{})
IsArray(a, k) == Has(a, k) /\ a[k].t = "arr"

EmptyBag == [k \in {} |-> Null]
\* the map m with key k set to v
Put(m, k, v) == (k :> v) @@ m
\* the map m without key k
Without(m, k) == [x \in DOMAIN m \ {k} |-> m[x]]

-----------------------------------------------------------------------------
(* Errors: a chain of layers, outermost first; the empty chain is nil *)

NoError == <<>>
\* fmt.Errorf(msg) with no wrapped cause
Errorf(msg) == <<[t |-> "errorf", msg |-> msg, status |-> 0, arg |-> ""]>>
\* fmt.Errorf(msg, arg) with a %s verb
ErrorfS(msg, arg) == <<[t |-> "errorf", msg |-> msg, status |-> 0, arg |-> arg]>>
\* fmt.Errorf(msg + ": %w", cause)
Wrap(msg, cause) == <<[t |-> "errorf", msg |-> msg, status |-> 0, arg |-> ""]>> \o cause
\* paperless.NewError(statusCode, ...)
NewError(statusCode) ==
    <<[t |-> "api", msg |-> "paperless API error", status |-> statusCode, arg |-> ""]>>

\* the type assertion err.(*Error): it looks at the error value itself and
\* at nothing the value wraps
IsAPIError(e) == e # <<>> /\ Head(e).t = "api"

\* a variant that looks through the wrapping, as errors.As would
IsNotFound_Unwraps(e) == \E i \in DOMAIN e : e[i].t = "api" /\ e[i].status = 404

IsNotFound(e) == IF IsAPIError(e) THEN Head(e).status = 404 ELSE FALSE

IsUnauthorized(e) ==
    IF IsAPIError(e) THEN Head(e).status = 401 \/ Head(e).status = 403 ELSE FALSE

NilResult == [nil |-> TRUE]

\* what a handler or a client method hands back
Fail(e, s) == [result |-> NilResult, err |-> e, sent |-> s]
Ok(r, s) == [result |-> r, err |-> NoError, sent |-> s]

-----------------------------------------------------------------------------
(* The backing API as the client sees it.  One record describes how the     *)
(* service answers the one request of a call: whether the round trip        *)
(* succeeded, the status, whether the body could be read to its end,        *)
(* whether it decodes, and what it holds.                                   *)

Cursor == Str("cursor")

Statuses == {200, 202, 204, 401, 403, 404, 500}

\* net/http hands the client an empty body for a status that allows none,
\* whatever the server wrote: 1xx, 204 and 304; an empty body does not decode
bodyAllowedForStatus(status) == status >= 200 /\ status \notin {204, 304}

\* answers to a paginated GET
ListAnswers ==
    {a \in [net : BOOLEAN, status : Statuses, json : BOOLEAN, count : 0..MaxCount,
            next : {Null, Cursor}, previous : {Null, Cursor}, results : BOOLEAN,
            id : {1}, read : BOOLEAN] :
        /\ (~a.net => a.status = 200 /\ a.read)
        /\ (~a.read => a.status \in {200, 404} /\ a.json /\ a.count = 0
                        /\ a.next = Null /\ a.previous = Null /\ a.results)
        /\ (~a.net \/ a.status \notin {200, 202, 204} => a.json)
        /\ (a.net /\ a.read /\ ~bodyAllowedForStatus(a.status) => ~a.json)
        /\ (~a.json \/ ~a.net \/ a.status \notin {200, 202} =>
                a.count = 0 /\ a.next = Null /\ a.previous = Null /\ a.results)}

\* answers to a request for one entity (GET, POST, PATCH) or to a DELETE
ItemAnswers ==
    {a \in [net : BOOLEAN, status : Statuses, json : BOOLEAN, count : {0},
            next : {Null}, previous : {Null}, results : {TRUE},
            id : 1..MaxEntity, read : BOOLEAN] :
        /\ (~a.net => a.status = 200 /\ a.read)
        /\ (~a.read => a.status \in {200, 404} /\ a.json /\ a.id = 1)
        /\ (~a.net \/ a.status \notin {200, 202, 204} => a.json /\ a.id = 1)
        /\ (a.net /\ a.read /\ ~bodyAllowedForStatus(a.status) => ~a.json)
        /\ (~a.json => a.id = 1)}

\* no answer: no request is out, or the answer is still to come
NoAnswer ==
    [net |-> FALSE, status |-> 0, json |-> FALSE, count |-> 0, next |-> Null,
     previous |-> Null, results |-> FALSE, id |-> 0, read |-> FALSE]

\* an answer under which every request succeeds
GoodAnswer(a) == a.net /\ a.read /\ a.status = 200 /\ a.json /\ a.results

-----------------------------------------------------------------------------
(* Requests *)

ItemPath(res, id) ==
    [kind |-> "item", res |-> res, id |-> id, page |-> 0, page_size |-> 0, query |-> ""]
ListPath(res, page, pageSize) ==
    [kind |-> "list", res |-> res, id |-> 0, page |-> page, page_size |-> pageSize, query |-> ""]
CollectionPath(res) ==
    [kind |-> "collection", res |-> res, id |-> 0, page |-> 0, page_size |-> 0, query |-> ""]
SearchPath(q, page, pageSize) ==
    [kind |-> "search", res |-> "documents", id |-> 0, page |-> page, page_size |-> pageSize, query |-> q]
SimilarPath(id, page, pageSize) ==
    [kind |-> "similar", res |-> "documents", id |-> id, page |-> page, page_size |-> pageSize, query |-> ""]

\* a body of nil, and a value json.Marshal refuses
NilBody == [nil |-> TRUE]
NaN == [t |-> "num", v |-> "NaN"]

\* the request doRequest builds: the Content-Type header is set for a POST,
\* PUT or PATCH that has a body
Request(method, path, body) ==
    [method |-> method, path |-> path, body |-> body,
     contentType |-> IF body # NilBody /\ method \in {"POST", "PUT", "PATCH"}
                     THEN "application/json" ELSE ""]

\* url.QueryEscape on the queries of the model
QueryEscape(q) == IF q = "a b" THEN "a+b" ELSE q

-----------------------------------------------------------------------------
(* internal/paperless: the HTTP verbs *)

NetError == <<[t |-> "net", msg |-> "round trip failed", status |-> 0, arg |-> ""]>>
ReadError == <<[t |-> "net", msg |-> "unexpected EOF", status |-> 0, arg |-> ""]>>
SyntaxError == <<[t |-> "json", msg |-> "cannot unmarshal", status |-> 0, arg |-> ""]>>

\* a variant that reports every failure as a 500
parseError_LosesStatus(statusCode) == NewError(500)

\* parseError always yields an *Error carrying the status code
parseError(statusCode) == NewError(statusCode)

URLError == <<[t |-> "url", msg |-> "parse: missing ']' in host", status |-> 0, arg |-> ""]>>
UnsupportedValue ==
    <<[t |-> "json", msg |-> "json: unsupported value", status |-> 0, arg |-> ""]>>

\* strings.TrimSuffix(baseURL, "/") and url.Parse on the URLs of the model
TrimSuffix(str) == IF str = "http://localhost:8000/" THEN "http://localhost:8000" ELSE str
ParsesURL(str) == str # "http://[::1"

\* paperless.New: the client's base URL
baseURL == TrimSuffix(cfg.PaperlessURL)

\* http.NewRequestWithContext(ctx, method, c.baseURL + path, body) in doRequest
newRequest ==
    IF ParsesURL(baseURL) THEN NoError ELSE Wrap("failed to create request", URLError)

\* json.Marshal(body) in POST, PUT and PATCH
marshal(body) ==
    IF body = NaN THEN Wrap("failed to marshal body", UnsupportedValue) ELSE NoError

\* the request that goes out once doRequest has built it
out(method, path, body) ==
    IF newRequest # NoError THEN <<>> ELSE <<Request(method, path, body)>>

\* doRequest: the request is built, then one HTTP round trip
doRequest(api) ==
    IF newRequest # NoError THEN newRequest
    ELSE IF api.net THEN NoError ELSE Wrap("request failed", NetError)

\* io.ReadAll(resp.Body) in GET, POST, PUT and PATCH, before the status is looked at
readAll(api) == IF api.read THEN NoError ELSE Wrap("failed to read response", ReadError)

\* a variant that sends the request again when the round trip failed
GET_Retry(path, api) ==
    LET do(s, e) ==
            IF e # NoError THEN [err |-> e, sent |-> s \o s]
            ELSE IF readAll(api) # NoError THEN [err |-> readAll(api), sent |-> s]
            ELSE IF api.status < 200 \/ api.status >= 300
                 THEN [err |-> parseError(api.status), sent |-> s]
                 ELSE [err |-> NoError, sent |-> s]
    IN  do(out("GET", path, NilBody), doRequest(api))

GET(path, api) ==
    LET do(s, e) ==
            IF e # NoError THEN [err |-> e, sent |-> s]
            ELSE IF readAll(api) # NoError THEN [err |-> readAll(api), sent |-> s]
            ELSE IF api.status < 200 \/ api.status >= 300
                 THEN [err |-> parseError(api.status), sent |-> s]
                 ELSE [err |-> NoError, sent |-> s]
    IN  do(out("GET", path, NilBody), doRequest(api))

POST(path, body, api) ==
    LET do(s, e) ==
            IF e # NoError THEN [err |-> e, sent |-> s]
            ELSE IF readAll(api) # NoError THEN [err |-> readAll(api), sent |-> s]
            ELSE IF api.status < 200 \/ api.status >= 300
                 THEN [err |-> parseError(api.status), sent |-> s]
                 ELSE [err |-> NoError, sent |-> s]
    IN  IF marshal(body) # NoError THEN [err |-> marshal(body), sent |-> <<>>]
        ELSE do(out("POST", path, body), doRequest(api))

PUT(path, body, api) ==
    LET do(s, e) ==
            IF e # NoError THEN [err |-> e, sent |-> s]
            ELSE IF readAll(api) # NoError THEN [err |-> readAll(api), sent |-> s]
            ELSE IF api.status < 200 \/ api.status >= 300
                 THEN [err |-> parseError(api.status), sent |-> s]
                 ELSE [err |-> NoError, sent |-> s]
    IN  IF marshal(body) # NoError THEN [err |-> marshal(body), sent |-> <<>>]
        ELSE do(out("PUT", path, body), doRequest(api))

PATCH(path, body, api) ==
    LET do(s, e) ==
            IF e # NoError THEN [err |-> e, sent |-> s]
            ELSE IF readAll(api) # NoError THEN [err |-> readAll(api), sent |-> s]
            ELSE IF api.status < 200 \/ api.status >= 300
                 THEN [err |-> parseError(api.status), sent |-> s]
                 ELSE [err |-> NoError, sent |-> s]
    IN  IF marshal(body) # NoError THEN [err |-> marshal(body), sent |-> <<>>]
        ELSE do(out("PATCH", path, body), doRequest(api))

\* a variant that takes every 2xx status for success, as the other verbs do
DELETE_Any2xx(path, api) ==
    LET do(s, e) ==
            IF e # NoError THEN [err |-> e, sent |-> s]
            ELSE IF api.status < 200 \/ api.status >= 300
                 THEN [err |-> parseError(api.status), sent |-> s]
                 ELSE [err |-> NoError, sent |-> s]
    IN  do(out("DELETE", path, NilBody), doRequest(api))

DELETE(path, api) ==
    LET do(s, e) ==
            IF e # NoError THEN [err |-> e, sent |-> s]
            ELSE IF api.status # 204 /\ api.status # 200
                 THEN [err |-> parseError(api.status), sent |-> s]
                 ELSE [err |-> NoError, sent |-> s]
    IN  do(out("DELETE", path, NilBody), doRequest(api))

\* the five verbs of the client
Verbs == {"GET", "POST", "PUT", "PATCH", "DELETE"}
ClientDo(verb, path, body, api) ==
    CASE verb = "GET" -> GET(path, api)
      [] verb = "POST" -> POST(path, body, api)
      [] verb = "PUT" -> PUT(path, body, api)
      [] verb = "PATCH" -> PATCH(path, body, api)
      [] verb = "DELETE" -> DELETE(path, api)

-----------------------------------------------------------------------------
(* internal/paperless/types.go: the structs and their JSON encoding.        *)
(* A field without omitempty is always written, with its zero value when    *)
(* the handler never set it; omitempty drops false, 0, "" and nil only, so  *)
(* a FlexibleTime struct is written even when zero (as null).               *)

\* add key k unless the value is the empty value of its type
OmitEmpty(obj, k, v, empty) == IF empty THEN obj ELSE Put(obj, k, v)

\* FlexibleTime.MarshalJSON: null for the zero time
MarshalTime(isZero) == IF isZero THEN Null ELSE Str("2006-01-02T15:04:05Z")

ZeroDocument ==
    [ID |-> 0, Correspondent |-> Null, DocumentType |-> Null, StoragePath |-> Null,
     Title |-> "", Content |-> "", Tags |-> Null, CreatedZero |-> TRUE,
     CreatedDate |-> "", ModifiedZero |-> TRUE, AddedZero |-> TRUE,
     ArchiveSerialNumber |-> Null, OriginalFileName |-> "", ArchivedFileName |-> Null,
     Owner |-> 0, UserCanChange |-> FALSE, Notes |-> <<>>, CustomFields |-> <<>>]

MarshalDocument(d) ==
    LET base == [id |-> IntVal(d.ID), correspondent |-> d.Correspondent,
                 document_type |-> d.DocumentType, storage_path |-> d.StoragePath,
                 title |-> Str(d.Title), tags |-> d.Tags,
                 created |-> MarshalTime(d.CreatedZero), created_date |-> Str(d.CreatedDate),
                 modified |-> MarshalTime(d.ModifiedZero), added |-> MarshalTime(d.AddedZero),
                 archive_serial_number |-> d.ArchiveSerialNumber,
                 original_file_name |-> Str(d.OriginalFileName),
                 archived_file_name |-> d.ArchivedFileName]
        o1 == OmitEmpty(base, "content", Str(d.Content), d.Content = "")
        o2 == OmitEmpty(o1, "owner", IntVal(d.Owner), d.Owner = 0)
        o3 == OmitEmpty(o2, "user_can_change", Bool(d.UserCanChange), ~d.UserCanChange)
        o4 == OmitEmpty(o3, "notes", Arr(d.Notes), d.Notes = <<>>)
    IN  OmitEmpty(o4, "custom_fields", Arr(d.CustomFields), d.CustomFields = <<>>)

ZeroCorrespondent ==
    [ID |-> 0, Slug |-> "", Name |-> "", Match |-> "", MatchingAlgorithm |-> 0,
     IsInsensitive |-> FALSE, DocumentCount |-> 0, LastCorrespondenceZero |-> TRUE,
     Owner |-> 0, UserCanChange |-> FALSE]

MarshalCorrespondent(c) ==
    LET base == [id |-> IntVal(c.ID), slug |-> Str(c.Slug), name |-> Str(c.Name),
                 match |-> Str(c.Match), matching_algorithm |-> IntVal(c.MatchingAlgorithm),
                 is_insensitive |-> Bool(c.IsInsensitive),
                 document_count |-> IntVal(c.DocumentCount),
                 last_correspondence |-> MarshalTime(c.LastCorrespondenceZero)]
        o1 == OmitEmpty(base, "owner", IntVal(c.Owner), c.Owner = 0)
    IN  OmitEmpty(o1, "user_can_change", Bool(c.UserCanChange), ~c.UserCanChange)

ZeroDocumentType ==
    [ID |-> 0, Slug |-> "", Name |-> "", Match |-> "", MatchingAlgorithm |-> 0,
     IsInsensitive |-> FALSE, DocumentCount |-> 0, Owner |-> 0, UserCanChange |-> FALSE]

MarshalDocumentType(c) ==
    LET base == [id |-> IntVal(c.ID), slug |-> Str(c.Slug), name |-> Str(c.Name),
                 match |-> Str(c.Match), matching_algorithm |-> IntVal(c.MatchingAlgorithm),
                 is_insensitive |-> Bool(c.IsInsensitive),
                 document_count |-> IntVal(c.DocumentCount)]
        o1 == OmitEmpty(base, "owner", IntVal(c.Owner), c.Owner = 0)
    IN  OmitEmpty(o1, "user_can_change", Bool(c.UserCanChange), ~c.UserCanChange)

ZeroTag ==
    [ID |-> 0, Slug |-> "", Name |-> "", Color |-> "", Match |-> "", MatchingAlgorithm |-> 0,
     IsInsensitive |-> FALSE, IsInboxTag |-> FALSE, DocumentCount |-> 0,
     Owner |-> 0, UserCanChange |-> FALSE]

MarshalTag(c) ==
    LET base == [id |-> IntVal(c.ID), slug |-> Str(c.Slug), name |-> Str(c.Name),
                 color |-> Str(c.Color),
                 match |-> Str(c.Match), matching_algorithm |-> IntVal(c.MatchingAlgorithm),
                 is_insensitive |-> Bool(c.IsInsensitive),
                 is_inbox_tag |-> Bool(c.IsInboxTag),
                 document_count |-> IntVal(c.DocumentCount)]
        o1 == OmitEmpty(base, "owner", IntVal(c.Owner), c.Owner = 0)
    IN  OmitEmpty(o1, "user_can_change", Bool(c.UserCanChange), ~c.UserCanChange)

ZeroStoragePath ==
    [ID |-> 0, Slug |-> "", Name |-> "", Path |-> "", Match |-> "", MatchingAlgorithm |-> 0,
     IsInsensitive |-> FALSE, DocumentCount |-> 0, Owner |-> 0, UserCanChange |-> FALSE]

MarshalStoragePath(c) ==
    LET base == [id |-> IntVal(c.ID), slug |-> Str(c.Slug), name |-> Str(c.Name),
                 path |-> Str(c.Path),
                 match |-> Str(c.Match), matching_algorithm |-> IntVal(c.MatchingAlgorithm),
                 is_insensitive |-> Bool(c.IsInsensitive),
                 document_count |-> IntVal(c.DocumentCount)]
        o1 == OmitEmpty(base, "owner", IntVal(c.Owner), c.Owner = 0)
    IN  OmitEmpty(o1, "user_can_change", Bool(c.UserCanChange), ~c.UserCanChange)

ZeroCustomField == [ID |-> 0, Name |-> "", DataType |-> ""]

MarshalCustomField(c) ==
    [id |-> IntVal(c.ID), name |-> Str(c.Name), data_type |-> Str(c.DataType)]

-----------------------------------------------------------------------------
(* internal/paperless: one method per resource and verb *)

\* the pagination defaults every paginated client method applies first
ClientPage(page) == IF page < 1 THEN 1 ELSE page
\* a variant that builds the URL with the page size it was given
ClientPageSize_AsGiven(pageSize) == pageSize

ClientPageSize(pageSize) ==
    IF pageSize < 1 THEN ClientDefaultPageSize
    ELSE IF pageSize > ClientMaxPageSize THEN ClientMaxPageSize ELSE pageSize

\* the decoded PaginatedResponse; Results stays raw until the handler decodes it
PaginatedResponse(api) ==
    [Count |-> api.count, Next |-> api.next, Previous |-> api.previous,
     Results |-> [ok |-> api.results, n |-> api.count]]

\* a decoded resource entity
Entity(type, api) == [type |-> type, id |-> api.id]

\* GET a page and decode the envelope
getPage(path, parseMsg, api) ==
    LET page(r) ==
            IF r.err # NoError THEN [val |-> NilResult, err |-> r.err, sent |-> r.sent]
            ELSE IF ~api.json
                 THEN [val |-> NilResult, err |-> Wrap(parseMsg, SyntaxError),
                       sent |-> r.sent]
                 ELSE [val |-> PaginatedResponse(api), err |-> NoError, sent |-> r.sent]
    IN  page(GET(path, api))

\* decode the body of a successful request into an entity
decodeEntity(r, type, parseMsg, api) ==
    IF r.err # NoError THEN [val |-> NilResult, err |-> r.err, sent |-> r.sent]
    ELSE IF ~api.json
         THEN [val |-> NilResult, err |-> Wrap(parseMsg, SyntaxError), sent |-> r.sent]
         ELSE [val |-> Entity(type, api), err |-> NoError, sent |-> r.sent]

SearchDocuments(query, page, pageSize, api) ==
    getPage(SearchPath(QueryEscape(query), ClientPage(page), ClientPageSize(pageSize)),
            "failed to parse response", api)

GetSimilarDocuments(documentID, page, pageSize, api) ==
    getPage(SimilarPath(documentID, ClientPage(page), ClientPageSize(pageSize)),
            "failed to parse response", api)

GetDocument(documentID, api) ==
    decodeEntity(GET(ItemPath("documents", documentID), api),
                 "Document", "failed to parse document", api)

\* the Content field of the fetched document
GetDocumentContent(documentID, api) ==
    LET d == GetDocument(documentID, api) IN
    IF d.err # NoError THEN d
    ELSE [val |-> [content |-> "text", of |-> d.val.id], err |-> NoError, sent |-> d.sent]

CreateDocument(document, api) ==
    decodeEntity(POST(CollectionPath("documents"), MarshalDocument(document), api),
                 "Document", "failed to parse created document", api)

UpdateDocument(documentID, updates, api) ==
    decodeEntity(PATCH(ItemPath("documents", documentID), updates, api),
                 "Document", "failed to parse updated document", api)

DeleteDocument(documentID, api) == DELETE(ItemPath("documents", documentID), api)

ListCorrespondents(page, pageSize, api) ==
    getPage(ListPath("correspondents", ClientPage(page), ClientPageSize(pageSize)),
            "failed to parse correspondents", api)

GetCorrespondent(correspondentID, api) ==
    decodeEntity(GET(ItemPath("correspondents", correspondentID), api),
                 "Correspondent", "failed to parse correspondent", api)

CreateCorrespondent(correspondent, api) ==
    decodeEntity(POST(CollectionPath("correspondents"), MarshalCorrespondent(correspondent), api),
                 "Correspondent", "failed to parse created correspondent", api)

UpdateCorrespondent(correspondentID, updates, api) ==
    decodeEntity(PATCH(ItemPath("correspondents", correspondentID), updates, api),
                 "Correspondent", "failed to parse updated correspondent", api)

DeleteCorrespondent(correspondentID, api) == DELETE(ItemPath("correspondents", correspondentID), api)

ListDocumentTypes(page, pageSize, api) ==
    getPage(ListPath("document_types", ClientPage(page), ClientPageSize(pageSize)),
            "failed to parse document types", api)

GetDocumentType(typeID, api) ==
    decodeEntity(GET(ItemPath("document_types", typeID), api),
                 "DocumentType", "failed to parse document type", api)

CreateDocumentType(docType, api) ==
    decodeEntity(POST(CollectionPath("document_types"), MarshalDocumentType(docType), api),
                 "DocumentType", "failed to parse created document type", api)

UpdateDocumentType(typeID, updates, api) ==
    decodeEntity(PATCH(ItemPath("document_types", typeID), updates, api),
                 "DocumentType", "failed to parse updated document type", api)

DeleteDocumentType(typeID, api) == DELETE(ItemPath("document_types", typeID), api)

ListTags(page, pageSize, api) ==
    getPage(ListPath("tags", ClientPage(page), ClientPageSize(pageSize)),
            "failed to parse tags", api)

GetTag(tagID, api) ==
    decodeEntity(GET(ItemPath("tags", tagID), api),
                 "Tag", "failed to parse tag", api)

CreateTag(tag, api) ==
    decodeEntity(POST(CollectionPath("tags"), MarshalTag(tag), api),
                 "Tag", "failed to parse created tag", api)

UpdateTag(tagID, updates, api) ==
    decodeEntity(PATCH(ItemPath("tags", tagID), updates, api),
                 "Tag", "failed to parse updated tag", api)

DeleteTag(tagID, api) == DELETE(ItemPath("tags", tagID), api)

ListStoragePaths(page, pageSize, api) ==
    getPage(ListPath("storage_paths", ClientPage(page), ClientPageSize(pageSize)),
            "failed to parse storage paths", api)

GetStoragePath(pathID, api) ==
    decodeEntity(GET(ItemPath("storage_paths", pathID), api),
                 "StoragePath", "failed to parse storage path", api)

CreateStoragePath(storagePath, api) ==
    decodeEntity(POST(CollectionPath("storage_paths"), MarshalStoragePath(storagePath), api),
                 "StoragePath", "failed to parse created storage path", api)

UpdateStoragePath(pathID, updates, api) ==
    decodeEntity(PATCH(ItemPath("storage_paths", pathID), updates, api),
                 "StoragePath", "failed to parse updated storage path", api)

DeleteStoragePath(pathID, api) == DELETE(ItemPath("storage_paths", pathID), api)

ListCustomFields(page, pageSize, api) ==
    getPage(ListPath("custom_fields", ClientPage(page), ClientPageSize(pageSize)),
            "failed to parse custom fields", api)

GetCustomField(fieldID, api) ==
    decodeEntity(GET(ItemPath("custom_fields", fieldID), api),
                 "CustomField", "failed to parse custom field", api)

CreateCustomField(field, api) ==
    decodeEntity(POST(CollectionPath("custom_fields"), MarshalCustomField(field), api),
                 "CustomField", "failed to parse created custom field", api)

UpdateCustomField(fieldID, updates, api) ==
    decodeEntity(PATCH(ItemPath("custom_fields", fieldID), updates, api),
                 "CustomField", "failed to parse updated custom field", api)

DeleteCustomField(fieldID, api) == DELETE(ItemPath("custom_fields", fieldID), api)

-----------------------------------------------------------------------------
(* internal/mcp: argument coercion shared by the handlers *)

\* page := DefaultPage; a float64 page is converted, and reset when below 1
pageArg(a) ==
    IF IsFloat(a, "page")
    THEN (IF IntOf(a["page"].v) < 1 THEN DefaultPage ELSE IntOf(a["page"].v))
    ELSE DefaultPage

\* pageSize := DefaultPageSize; a float64 page_size is converted, reset when
\* below 1 and clamped to MaxPageSize
pageSizeArg(a) ==
    IF IsFloat(a, "page_size")
    THEN (IF IntOf(a["page_size"].v) < 1 THEN DefaultPageSize
          ELSE IF IntOf(a["page_size"].v) > MaxPageSize THEN MaxPageSize
          ELSE IntOf(a["page_size"].v))
    ELSE DefaultPageSize

\* json.Unmarshal(response.Results, &typed): the decoded array
Items(results) == [i \in 1..results.n |-> i]

\* a variant that forgets to leave the id key out
updatesExcept_KeepId(a, idKey) == a

\* updates: every key of the bag but the id key
updatesExcept(a, idKey) == Without(a, idKey)

\* the float64 elements of an array, converted; other elements are skipped
RECURSIVE floatElems(_)
floatElems(seq) ==
    IF seq = <<>> THEN <<>>
    ELSE IF Head(seq).t = "num"
         THEN <<IntVal(IntOf(Head(seq).v))>> \o floatElems(Tail(seq))
         ELSE floatElems(Tail(seq))

-----------------------------------------------------------------------------
(* internal/mcp/document_handlers.go *)

handleSearchDocuments(a, api) ==
    IF ~IsString(a, "query") \/ a["query"].v = ""
    THEN Fail(Errorf("query parameter is required and must be a non-empty string"), <<>>)
    ELSE
      LET page == pageArg(a)
          pageSize == pageSizeArg(a)
          r == SearchDocuments(a["query"].v, page, pageSize, api)
      IN  IF r.err # NoError THEN Fail(Wrap("failed to search documents", r.err), r.sent)
          ELSE IF ~r.val.Results.ok
               THEN Fail(Wrap("failed to parse search results", SyntaxError), r.sent)
               ELSE Ok([count |-> r.val.Count, page |-> page, page_size |-> pageSize,
                        has_next |-> r.val.Next # Null, has_prev |-> r.val.Previous # Null,
                        documents |-> Items(r.val.Results)], r.sent)

handleFindSimilarDocuments(a, api) ==
    IF ~IsFloat(a, "document_id")
    THEN Fail(Errorf("document_id parameter is required and must be an integer"), <<>>)
    ELSE IF IntOf(a["document_id"].v) < 1
    THEN Fail(Errorf("document_id must be a positive integer"), <<>>)
    ELSE
      LET documentID == IntOf(a["document_id"].v)
          page == pageArg(a)
          pageSize == pageSizeArg(a)
          r == GetSimilarDocuments(documentID, page, pageSize, api)
      IN  IF r.err # NoError THEN Fail(Wrap("failed to find similar documents", r.err), r.sent)
          ELSE IF ~r.val.Results.ok
               THEN Fail(Wrap("failed to parse results", SyntaxError), r.sent)
               ELSE Ok([document_id |-> documentID,
                        count |-> r.val.Count, page |-> page, page_size |-> pageSize,
                        has_next |-> r.val.Next # Null, has_prev |-> r.val.Previous # Null,
                        documents |-> Items(r.val.Results)], r.sent)

handleGetDocument(a, api) ==
    IF ~IsFloat(a, "document_id")
    THEN Fail(Errorf("document_id parameter is required and must be an integer"), <<>>)
    ELSE IF IntOf(a["document_id"].v) < 1
    THEN Fail(Errorf("document_id must be a positive integer"), <<>>)
    ELSE
      LET r == GetDocument(IntOf(a["document_id"].v), api)
      IN  IF r.err # NoError THEN Fail(Wrap("failed to get document", r.err), r.sent)
          ELSE Ok(r.val, r.sent)

handleGetDocumentContent(a, api) ==
    IF ~IsFloat(a, "document_id")
    THEN Fail(Errorf("document_id parameter is required and must be an integer"), <<>>)
    ELSE IF IntOf(a["document_id"].v) < 1
    THEN Fail(Errorf("document_id must be a positive integer"), <<>>)
    ELSE
      LET documentID == IntOf(a["document_id"].v)
          r == GetDocumentContent(documentID, api)
      IN  IF r.err # NoError THEN Fail(Wrap("failed to get document content", r.err), r.sent)
          ELSE Ok([document_id |-> documentID, content |-> r.val.content], r.sent)

handleCreateDocument(a, api) ==
    IF ~IsString(a, "title") \/ a["title"].v = ""
    THEN Fail(Errorf("title parameter is required and must be a non-empty string"), <<>>)
    ELSE
      LET d0 == [ZeroDocument EXCEPT !.Title = a["title"].v]
          d1 == IF IsFloat(a, "correspondent")
                THEN [d0 EXCEPT !.Correspondent = IntVal(IntOf(a["correspondent"].v))] ELSE d0
          d2 == IF IsFloat(a, "document_type")
                THEN [d1 EXCEPT !.DocumentType = IntVal(IntOf(a["document_type"].v))] ELSE d1
          d3 == IF IsFloat(a, "storage_path")
                THEN [d2 EXCEPT !.StoragePath = IntVal(IntOf(a["storage_path"].v))] ELSE d2
          d4 == IF IsArray(a, "tags")
                THEN [d3 EXCEPT !.Tags = Arr(floatElems(a["tags"].v))] ELSE d3
          r == CreateDocument(d4, api)
      IN  IF r.err # NoError THEN Fail(Wrap("failed to create document", r.err), r.sent)
          ELSE Ok(r.val, r.sent)

handleUpdateDocument(a, api) ==
    IF ~IsFloat(a, "document_id")
    THEN Fail(Errorf("document_id parameter is required and must be an integer"), <<>>)
    ELSE IF IntOf(a["document_id"].v) < 1
    THEN Fail(Errorf("document_id must be a positive integer"), <<>>)
    ELSE
      LET updates == updatesExcept(a, "document_id") IN
      IF DOMAIN updates = {}
      THEN Fail(Errorf("at least one field to update must be provided"), <<>>)
      ELSE
        LET r == UpdateDocument(IntOf(a["document_id"].v), updates, api)
        IN  IF r.err # NoError THEN Fail(Wrap("failed to update document", r.err), r.sent)
            ELSE Ok(r.val, r.sent)

handleDeleteDocument(a, api) ==
    IF ~IsFloat(a, "document_id")
    THEN Fail(Errorf("document_id parameter is required and must be an integer"), <<>>)
    ELSE IF IntOf(a["document_id"].v) < 1
    THEN Fail(Errorf("document_id must be a positive integer"), <<>>)
    ELSE
      LET documentID == IntOf(a["document_id"].v)
          r == DeleteDocument(documentID, api)
      IN  IF r.err # NoError THEN Fail(Wrap("failed to delete document", r.err), r.sent)
          ELSE Ok([success |-> TRUE, document_id |-> documentID,
                   message |-> "Document deleted successfully"], r.sent)

-----------------------------------------------------------------------------
(* internal/mcp/correspondent_handlers.go *)

handleListCorrespondents(a, api) ==
    LET page == pageArg(a)
        pageSize == pageSizeArg(a)
        r == ListCorrespondents(page, pageSize, api)
    IN  IF r.err # NoError THEN Fail(Wrap("failed to list correspondents", r.err), r.sent)
        ELSE IF ~r.val.Results.ok
             THEN Fail(Wrap("failed to parse results", SyntaxError), r.sent)
             ELSE Ok([count |-> r.val.Count, page |-> page, page_size |-> pageSize,
                      has_next |-> r.val.Next # Null, has_prev |-> r.val.Previous # Null,
                      correspondents |-> Items(r.val.Results)], r.sent)

handleGetCorrespondent(a, api) ==
    IF ~IsFloat(a, "correspondent_id")
    THEN Fail(Errorf("correspondent_id parameter is required and must be an integer"), <<>>)
    ELSE IF IntOf(a["correspondent_id"].v) < 1
    THEN Fail(Errorf("correspondent_id must be a positive integer"), <<>>)
    ELSE
      LET r == GetCorrespondent(IntOf(a["correspondent_id"].v), api)
      IN  IF r.err # NoError THEN Fail(Wrap("failed to get correspondent", r.err), r.sent)
          ELSE Ok(r.val, r.sent)

\* a variant that refuses a matching_algorithm that is not a number
handleCreateCorrespondent_Strict(a, api) ==
    IF ~IsString(a, "name") \/ a["name"].v = ""
    THEN Fail(Errorf("name parameter is required and must be a non-empty string"), <<>>)
    ELSE IF Has(a, "matching_algorithm") /\ ~IsFloat(a, "matching_algorithm")
    THEN Fail(Errorf("matching_algorithm must be an integer"), <<>>)
    ELSE
      LET c0 == [ZeroCorrespondent EXCEPT !.Name = a["name"].v]
          c1 == IF IsString(a, "match") THEN [c0 EXCEPT !.Match = a["match"].v] ELSE c0
          c2 == IF IsFloat(a, "matching_algorithm")
                THEN [c1 EXCEPT !.MatchingAlgorithm = IntOf(a["matching_algorithm"].v)] ELSE c1
          c3 == IF IsBool(a, "is_insensitive")
                THEN [c2 EXCEPT !.IsInsensitive = a["is_insensitive"].v] ELSE c2
          r == CreateCorrespondent(c3, api)
      IN  IF r.err # NoError THEN Fail(Wrap("failed to create correspondent", r.err), r.sent)
          ELSE Ok(r.val, r.sent)

handleCreateCorrespondent(a, api) ==
    IF ~IsString(a, "name") \/ a["name"].v = ""
    THEN Fail(Errorf("name parameter is required and must be a non-empty string"), <<>>)
    ELSE
      LET c0 == [ZeroCorrespondent EXCEPT !.Name = a["name"].v]
          c1 == IF IsString(a, "match") THEN [c0 EXCEPT !.Match = a["match"].v] ELSE c0
          c2 == IF IsFloat(a, "matching_algorithm")
                THEN [c1 EXCEPT !.MatchingAlgorithm = IntOf(a["matching_algorithm"].v)] ELSE c1
          c3 == IF IsBool(a, "is_insensitive")
                THEN [c2 EXCEPT !.IsInsensitive = a["is_insensitive"].v] ELSE c2
          r == CreateCorrespondent(c3, api)
      IN  IF r.err # NoError THEN Fail(Wrap("failed to create correspondent", r.err), r.sent)
          ELSE Ok(r.val, r.sent)

handleUpdateCorrespondent(a, api) ==
    IF ~IsFloat(a, "correspondent_id")
    THEN Fail(Errorf("correspondent_id parameter is required and must be an integer"), <<>>)
    ELSE IF IntOf(a["correspondent_id"].v) < 1
    THEN Fail(Errorf("correspondent_id must be a positive integer"), <<>>)
    ELSE
      LET updates == updatesExcept(a, "correspondent_id") IN
      IF DOMAIN updates = {}
      THEN Fail(Errorf("at least one field to update must be provided"), <<>>)
      ELSE
        LET r == UpdateCorrespondent(IntOf(a["correspondent_id"].v), updates, api)
        IN  IF r.err # NoError THEN Fail(Wrap("failed to update correspondent", r.err), r.sent)
            ELSE Ok(r.val, r.sent)

handleDeleteCorrespondent(a, api) ==
    IF ~IsFloat(a, "correspondent_id")
    THEN Fail(Errorf("correspondent_id parameter is required and must be an integer"), <<>>)
    ELSE IF IntOf(a["correspondent_id"].v) < 1
    THEN Fail(Errorf("correspondent_id must be a positive integer"), <<>>)
    ELSE
      LET id == IntOf(a["correspondent_id"].v)
          r == DeleteCorrespondent(id, api)
      IN  IF r.err # NoError THEN Fail(Wrap("failed to delete correspondent", r.err), r.sent)
          ELSE Ok([success |-> TRUE, correspondent_id |-> id,
                   message |-> "Correspondent deleted successfully"], r.sent)

-----------------------------------------------------------------------------
(* internal/mcp/doctype_handlers.go *)

handleListDocumentTypes(a, api) ==
    LET page == pageArg(a)
        pageSize == pageSizeArg(a)
        r == ListDocumentTypes(page, pageSize, api)
    IN  IF r.err # NoError THEN Fail(Wrap("failed to list document types", r.err), r.sent)
        ELSE IF ~r.val.Results.ok
             THEN Fail(Wrap("failed to parse results", SyntaxError), r.sent)
             ELSE Ok([count |-> r.val.Count, page |-> page, page_size |-> pageSize,
                      has_next |-> r.val.Next # Null, has_prev |-> r.val.Previous # Null,
                      document_types |-> Items(r.val.Results)], r.sent)

handleGetDocumentType(a, api) ==
    IF ~IsFloat(a, "document_type_id")
    THEN Fail(Errorf("document_type_id parameter is required and must be an integer"), <<>>)
    ELSE IF IntOf(a["document_type_id"].v) < 1
    THEN Fail(Errorf("document_type_id must be a positive integer"), <<>>)
    ELSE
      LET r == GetDocumentType(IntOf(a["document_type_id"].v), api)
      IN  IF r.err # NoError THEN Fail(Wrap("failed to get document type", r.err), r.sent)
          ELSE Ok(r.val, r.sent)

handleCreateDocumentType(a, api) ==
    IF ~IsString(a, "name") \/ a["name"].v = ""
    THEN Fail(Errorf("name parameter is required and must be a non-empty string"), <<>>)
    ELSE
      LET c0 == [ZeroDocumentType EXCEPT !.Name = a["name"].v]
          c1 == IF IsString(a, "match") THEN [c0 EXCEPT !.Match = a["match"].v] ELSE c0
          c2 == IF IsFloat(a, "matching_algorithm")
                THEN [c1 EXCEPT !.MatchingAlgorithm = IntOf(a["matching_algorithm"].v)] ELSE c1
          c3 == IF IsBool(a, "is_insensitive")
                THEN [c2 EXCEPT !.IsInsensitive = a["is_insensitive"].v] ELSE c2
          r == CreateDocumentType(c3, api)
      IN  IF r.err # NoError THEN Fail(Wrap("failed to create document type", r.err), r.sent)
          ELSE Ok(r.val, r.sent)

handleUpdateDocumentType(a, api) ==
    IF ~IsFloat(a, "document_type_id")
    THEN Fail(Errorf("document_type_id parameter is required and must be an integer"), <<>>)
    ELSE IF IntOf(a["document_type_id"].v) < 1
    THEN Fail(Errorf("document_type_id must be a positive integer"), <<>>)
    ELSE
      LET updates == updatesExcept(a, "document_type_id") IN
      IF DOMAIN updates = {}
      THEN Fail(Errorf("at least one field to update must be provided"), <<>>)
      ELSE
        LET r == UpdateDocumentType(IntOf(a["document_type_id"].v), updates, api)
        IN  IF r.err # NoError THEN Fail(Wrap("failed to update document type", r.err), r.sent)
            ELSE Ok(r.val, r.sent)

handleDeleteDocumentType(a, api) ==
    IF ~IsFloat(a, "document_type_id")
    THEN Fail(Errorf("document_type_id parameter is required and must be an integer"), <<>>)
    ELSE IF IntOf(a["document_type_id"].v) < 1
    THEN Fail(Errorf("document_type_id must be a positive integer"), <<>>)
    ELSE
      LET id == IntOf(a["document_type_id"].v)
          r == DeleteDocumentType(id, api)
      IN  IF r.err # NoError THEN Fail(Wrap("failed to delete document type", r.err), r.sent)
          ELSE Ok([success |-> TRUE, document_type_id |-> id,
                   message |-> "Document type deleted successfully"], r.sent)

-----------------------------------------------------------------------------
(* the storage path handlers *)

handleListStoragePaths(a, api) ==
    LET page == pageArg(a)
        pageSize == pageSizeArg(a)
        r == ListStoragePaths(page, pageSize, api)
    IN  IF r.err # NoError THEN Fail(Wrap("failed to list storage paths", r.err), r.sent)
        ELSE IF ~r.val.Results.ok
             THEN Fail(Wrap("failed to parse results", SyntaxError), r.sent)
             ELSE Ok([count |-> r.val.Count, page |-> page, page_size |-> pageSize,
                      has_next |-> r.val.Next # Null, has_prev |-> r.val.Previous # Null,
                      storage_paths |-> Items(r.val.Results)], r.sent)

handleGetStoragePath(a, api) ==
    IF ~IsFloat(a, "storage_path_id")
    THEN Fail(Errorf("storage_path_id parameter is required and must be an integer"), <<>>)
    ELSE IF IntOf(a["storage_path_id"].v) < 1
    THEN Fail(Errorf("storage_path_id must be a positive integer"), <<>>)
    ELSE
      LET r == GetStoragePath(IntOf(a["storage_path_id"].v), api)
      IN  IF r.err # NoError THEN Fail(Wrap("failed to get storage path", r.err), r.sent)
          ELSE Ok(r.val, r.sent)

handleCreateStoragePath(a, api) ==
    IF ~IsString(a, "name") \/ a["name"].v = ""
    THEN Fail(Errorf("name parameter is required and must be a non-empty string"), <<>>)
    ELSE IF ~IsString(a, "path") \/ a["path"].v = ""
    THEN Fail(Errorf("path parameter is required and must be a non-empty string"), <<>>)
    ELSE
      LET c0 == [ZeroStoragePath EXCEPT !.Name = a["name"].v, !.Path = a["path"].v]
          c1 == IF IsString(a, "match") THEN [c0 EXCEPT !.Match = a["match"].v] ELSE c0
          c2 == IF IsFloat(a, "matching_algorithm")
                THEN [c1 EXCEPT !.MatchingAlgorithm = IntOf(a["matching_algorithm"].v)] ELSE c1
          c3 == IF IsBool(a, "is_insensitive")
                THEN [c2 EXCEPT !.IsInsensitive = a["is_insensitive"].v] ELSE c2
          r == CreateStoragePath(c3, api)
      IN  IF r.err # NoError THEN Fail(Wrap("failed to create storage path", r.err), r.sent)
          ELSE Ok(r.val, r.sent)

handleUpdateStoragePath(a, api) ==
    IF ~IsFloat(a, "storage_path_id")
    THEN Fail(Errorf("storage_path_id parameter is required and must be an integer"), <<>>)
    ELSE IF IntOf(a["storage_path_id"].v) < 1
    THEN Fail(Errorf("storage_path_id must be a positive integer"), <<>>)
    ELSE
      LET updates == updatesExcept(a, "storage_path_id") IN
      IF DOMAIN updates = {}
      THEN Fail(Errorf("at least one field to update must be provided"), <<>>)
      ELSE
        LET r == UpdateStoragePath(IntOf(a["storage_path_id"].v), updates, api)
        IN  IF r.err # NoError THEN Fail(Wrap("failed to update storage path", r.err), r.sent)
            ELSE Ok(r.val, r.sent)

handleDeleteStoragePath(a, api) ==
    IF ~IsFloat(a, "storage_path_id")
    THEN Fail(Errorf("storage_path_id parameter is required and must be an integer"), <<>>)
    ELSE IF IntOf(a["storage_path_id"].v) < 1
    THEN Fail(Errorf("storage_path_id must be a positive integer"), <<>>)
    ELSE
      LET id == IntOf(a["storage_path_id"].v)
          r == DeleteStoragePath(id, api)
      IN  IF r.err # NoError THEN Fail(Wrap("failed to delete storage path", r.err), r.sent)
          ELSE Ok([success |-> TRUE, storage_path_id |-> id,
                   message |-> "Storage path deleted successfully"], r.sent)

-----------------------------------------------------------------------------
(* the tag handlers *)

handleListTags(a, api) ==
    LET page == IF IsFloat(a, "page") THEN IntOf(a["page"].v) ELSE 1
        pageSize == IF IsFloat(a, "page_size") THEN IntOf(a["page_size"].v)
                    ELSE ClientDefaultPageSize
        r == ListTags(page, pageSize, api)
    IN  IF r.err # NoError THEN Fail(Wrap("failed to list tags", r.err), r.sent)
        ELSE IF ~r.val.Results.ok
             THEN Fail(Wrap("failed to parse tags", SyntaxError), r.sent)
             ELSE Ok([count |-> r.val.Count, next |-> r.val.Next,
                      previous |-> r.val.Previous,
                      tags |-> Items(r.val.Results)], r.sent)

handleGetTag(a, api) ==
    IF ~IsFloat(a, "tag_id")
    THEN Fail(Errorf("tag_id is required and must be an integer"), <<>>)
    ELSE
      LET r == GetTag(IntOf(a["tag_id"].v), api)
      IN  IF r.err # NoError THEN Fail(Wrap("failed to get tag", r.err), r.sent)
          ELSE Ok(r.val, r.sent)

\* a variant that checks the name only
handleCreateTag_NoColorCheck(a, api) ==
    IF ~IsString(a, "name") \/ a["name"].v = ""
    THEN Fail(Errorf("name is required and must be a non-empty string"), <<>>)
    ELSE
      LET c0 == [ZeroTag EXCEPT !.Name = a["name"].v,
                                !.Color = IF IsString(a, "color") THEN a["color"].v ELSE ""]
          r == CreateTag(c0, api)
      IN  IF r.err # NoError THEN Fail(Wrap("failed to create tag", r.err), r.sent)
          ELSE Ok(r.val, r.sent)

handleCreateTag(a, api) ==
    IF ~IsString(a, "name") \/ a["name"].v = ""
    THEN Fail(Errorf("name is required and must be a non-empty string"), <<>>)
    ELSE IF ~IsString(a, "color") \/ a["color"].v = ""
    THEN Fail(Errorf("color is required and must be a non-empty string"), <<>>)
    ELSE
      LET c0 == [ZeroTag EXCEPT !.Name = a["name"].v, !.Color = a["color"].v]
          c1 == IF IsString(a, "match") THEN [c0 EXCEPT !.Match = a["match"].v] ELSE c0
          c2 == IF IsFloat(a, "matching_algorithm")
                THEN [c1 EXCEPT !.MatchingAlgorithm = IntOf(a["matching_algorithm"].v)] ELSE c1
          c3 == IF IsBool(a, "is_insensitive")
                THEN [c2 EXCEPT !.IsInsensitive = a["is_insensitive"].v] ELSE c2
          c4 == IF IsBool(a, "is_inbox_tag")
                THEN [c3 EXCEPT !.IsInboxTag = a["is_inbox_tag"].v] ELSE c3
          r == CreateTag(c4, api)
      IN  IF r.err # NoError THEN Fail(Wrap("failed to create tag", r.err), r.sent)
          ELSE Ok(r.val, r.sent)

handleUpdateTag(a, api) ==
    IF ~IsFloat(a, "tag_id")
    THEN Fail(Errorf("tag_id is required and must be an integer"), <<>>)
    ELSE
      LET u0 == EmptyBag
          u1 == IF IsString(a, "name") THEN Put(u0, "name", a["name"]) ELSE u0
          u2 == IF IsString(a, "color") THEN Put(u1, "color", a["color"]) ELSE u1
          u3 == IF IsString(a, "match") THEN Put(u2, "match", a["match"]) ELSE u2
          u4 == IF IsFloat(a, "matching_algorithm")
                THEN Put(u3, "matching_algorithm", IntVal(IntOf(a["matching_algorithm"].v)))
                ELSE u3
          u5 == IF IsBool(a, "is_insensitive")
                THEN Put(u4, "is_insensitive", a["is_insensitive"]) ELSE u4
          updates == IF IsBool(a, "is_inbox_tag")
                     THEN Put(u5, "is_inbox_tag", a["is_inbox_tag"]) ELSE u5
      IN
      IF DOMAIN updates = {}
      THEN Fail(Errorf("at least one field must be provided for update"), <<>>)
      ELSE
        LET r == UpdateTag(IntOf(a["tag_id"].v), updates, api)
        IN  IF r.err # NoError THEN Fail(Wrap("failed to update tag", r.err), r.sent)
            ELSE Ok(r.val, r.sent)

\* a variant that ignores the outcome of the type assertion
handleDeleteTag_IgnoreOk(a, api) ==
    LET id == IF IsFloat(a, "tag_id") THEN IntOf(a["tag_id"].v) ELSE 0
        r == DeleteTag(id, api)
    IN  IF r.err # NoError THEN Fail(Wrap("failed to delete tag", r.err), r.sent)
        ELSE Ok([success |-> TRUE,
                 message |-> <<"Tag %d deleted successfully", id>>], r.sent)

handleDeleteTag(a, api) ==
    IF ~IsFloat(a, "tag_id")
    THEN Fail(Errorf("tag_id is required and must be an integer"), <<>>)
    ELSE
      LET id == IntOf(a["tag_id"].v)
          r == DeleteTag(id, api)
      IN  IF r.err # NoError THEN Fail(Wrap("failed to delete tag", r.err), r.sent)
          ELSE Ok([success |-> TRUE,
                   message |-> <<"Tag %d deleted successfully", id>>], r.sent)

-----------------------------------------------------------------------------
(* the custom field handlers *)

handleListCustomFields(a, api) ==
    LET page == pageArg(a)
        pageSize == pageSizeArg(a)
        r == ListCustomFields(page, pageSize, api)
    IN  IF r.err # NoError THEN Fail(Wrap("failed to list custom fields", r.err), r.sent)
        ELSE IF ~r.val.Results.ok
             THEN Fail(Wrap("failed to parse custom fields", SyntaxError), r.sent)
             ELSE Ok([count |-> r.val.Count, page |-> page, page_size |-> pageSize,
                      has_next |-> r.val.Next # Null, has_prev |-> r.val.Previous # Null,
                      fields |-> Items(r.val.Results)], r.sent)

handleGetCustomField(a, api) ==
    IF ~IsFloat(a, "field_id")
    THEN Fail(Errorf("field_id parameter is required and must be an integer"), <<>>)
    ELSE IF IntOf(a["field_id"].v) < 1
    THEN Fail(Errorf("field_id must be a positive integer"), <<>>)
    ELSE
      LET r == GetCustomField(IntOf(a["field_id"].v), api)
      IN  IF r.err # NoError THEN Fail(Wrap("failed to get custom field", r.err), r.sent)
          ELSE Ok(r.val, r.sent)

handleCreateCustomField(a, api) ==
    IF ~IsString(a, "name") \/ a["name"].v = ""
    THEN Fail(Errorf("name parameter is required and must be a non-empty string"), <<>>)
    ELSE IF ~IsString(a, "data_type") \/ a["data_type"].v = ""
    THEN Fail(Errorf("data_type parameter is required and must be a non-empty string"), <<>>)
    ELSE
      LET field == [ZeroCustomField EXCEPT !.Name = a["name"].v,
                                           !.DataType = a["data_type"].v]
          r == CreateCustomField(field, api)
      IN  IF r.err # NoError THEN Fail(Wrap("failed to create custom field", r.err), r.sent)
          ELSE Ok(r.val, r.sent)

handleUpdateCustomField(a, api) ==
    IF ~IsFloat(a, "field_id")
    THEN Fail(Errorf("field_id parameter is required and must be an integer"), <<>>)
    ELSE IF IntOf(a["field_id"].v) < 1
    THEN Fail(Errorf("field_id must be a positive integer"), <<>>)
    ELSE
      LET u0 == EmptyBag
          u1 == IF IsString(a, "name") /\ a["name"].v # ""
                THEN Put(u0, "name", a["name"]) ELSE u0
          updates == IF IsString(a, "data_type") /\ a["data_type"].v # ""
                     THEN Put(u1, "data_type", a["data_type"]) ELSE u1
      IN
      IF DOMAIN updates = {}
      THEN Fail(Errorf("at least one field to update must be provided"), <<>>)
      ELSE
        LET r == UpdateCustomField(IntOf(a["field_id"].v), updates, api)
        IN  IF r.err # NoError THEN Fail(Wrap("failed to update custom field", r.err), r.sent)
            ELSE Ok(r.val, r.sent)

handleDeleteCustomField(a, api) ==
    IF ~IsFloat(a, "field_id")
    THEN Fail(Errorf("field_id parameter is required and must be an integer"), <<>>)
    ELSE IF IntOf(a["field_id"].v) < 1
    THEN Fail(Errorf("field_id must be a positive integer"), <<>>)
    ELSE
      LET id == IntOf(a["field_id"].v)
          r == DeleteCustomField(id, api)
      IN  IF r.err # NoError THEN Fail(Wrap("failed to delete custom field", r.err), r.sent)
          ELSE Ok([success |-> TRUE,
                   message |-> <<"Custom field %d deleted successfully", id>>], r.sent)

-----------------------------------------------------------------------------
(* internal/mcp/tools.go: the utility tools *)

handlePing(a, api) == Ok([status |-> "ok", message |-> "pong"], <<>>)

handleServerInfo(a, api) ==
    Ok([server_name |-> "Paperless MCP Server", server_version |-> "1.0.0",
        paperless_url |-> cfg.PaperlessURL, transport |-> cfg.MCPTransport,
        status |-> "ok"], <<>>)

-----------------------------------------------------------------------------
(* bulk_edit_documents: tools.go registers s.handleBulkEditDocuments *)

\* every element is a number that converts to an integer of at least 1
RECURSIVE positiveInts(_)
positiveInts(seq) ==
    \/ seq = <<>>
    \/ /\ Head(seq).t = "num"
       /\ IntOf(Head(seq).v) >= 1
       /\ positiveInts(Tail(seq))

\* the batched mutation call and what becomes of it: the call fails when the
\* round trip fails, when the answer cannot be read, and on a status outside
\* 200..299
BulkEditPath ==
    [kind |-> "bulk_edit", res |-> "documents", id |-> 0, page |-> 0, page_size |-> 0,
     query |-> ""]
BulkEditError(api) ==
    IF ~api.net THEN Wrap("request failed", NetError)
    ELSE IF readAll(api) # NoError THEN readAll(api)
    ELSE IF api.status < 200 \/ api.status >= 300 THEN parseError(api.status)
    ELSE NoError

\* a variant that edits the documents one request at a time
BulkEditDocuments_PerDocument(body, api) ==
    [err |-> BulkEditError(api),
     sent |-> [i \in DOMAIN body["documents"].v |->
                 Request("POST", BulkEditPath,
                         Put(body, "documents", Arr(<<body["documents"].v[i]>>)))]]

\* the client's bulk edit, as the spec has it: the mutations given are applied
\* to every listed document "in one backing-API call", so a call is exactly
\* one request, a POST that carries every ID and every mutation
BulkEditDocuments(body, api) ==
    [err |-> BulkEditError(api),
     sent |-> <<Request("POST", BulkEditPath, body)>>]

handleBulkEditDocuments(a, api) ==
    IF ~IsArray(a, "document_ids") \/ a["document_ids"].v = <<>>
       \/ ~positiveInts(a["document_ids"].v)
    THEN Fail(Errorf("document_ids must be a non-empty array of positive integers"), <<>>)
    ELSE
      LET b0 == [documents |-> Arr(floatElems(a["document_ids"].v))]
          b1 == IF IsArray(a, "add_tags")
                THEN Put(b0, "add_tags", Arr(floatElems(a["add_tags"].v))) ELSE b0
          b2 == IF IsArray(a, "remove_tags")
                THEN Put(b1, "remove_tags", Arr(floatElems(a["remove_tags"].v))) ELSE b1
          b3 == IF IsFloat(a, "set_correspondent")
                THEN Put(b2, "set_correspondent", IntVal(IntOf(a["set_correspondent"].v)))
                ELSE b2
          b4 == IF IsFloat(a, "set_document_type")
                THEN Put(b3, "set_document_type", IntVal(IntOf(a["set_document_type"].v)))
                ELSE b3
          b5 == IF IsFloat(a, "set_storage_path")
                THEN Put(b4, "set_storage_path", IntVal(IntOf(a["set_storage_path"].v)))
                ELSE b4
          r == BulkEditDocuments(b5, api)
      IN  IF r.err # NoError THEN Fail(Wrap("failed to bulk edit documents", r.err), r.sent)
          ELSE Ok([success |-> TRUE, count |-> Len(a["document_ids"].v)], r.sent)

-----------------------------------------------------------------------------
(* package config: Load *)

DefaultLogLevel == "info"
DefaultMCPTransport == "stdio"
DefaultMCPHTTPPort == "8080"

\* strings.TrimSpace and strings.ToLower on the strings of the model
TrimSpace(str) ==
    CASE str \in {" ", "  "} -> ""
      [] str = " token " -> "token"
      [] OTHER -> str
ToLower(str) ==
    CASE str = "DEBUG" -> "debug"
      [] str = "Warn" -> "warn"
      [] str = "TRACE" -> "trace"
      [] str = "HTTP" -> "http"
      [] str = "Stdio" -> "stdio"
      [] str = "SSE" -> "sse"
      [] OTHER -> str

NilConfig == [nil |-> TRUE]
Config(url, token, auth, level, transport, port) ==
    [PaperlessURL |-> url, PaperlessToken |-> token, MCPAuthToken |-> auth,
     LogLevel |-> level, MCPTransport |-> transport, MCPHTTPPort |-> port]

\* os.Getenv: the value, empty for a variable that is not set
Getenv(e, name) == e[name]

\* a variant that checks the lowered transport and keeps the value as given
Load_KeepsCase(e) ==
    LET level == ToLower(IF Getenv(e, "LOG_LEVEL") = "" THEN DefaultLogLevel
                         ELSE Getenv(e, "LOG_LEVEL"))
        given == IF Getenv(e, "MCP_TRANSPORT") = "" THEN DefaultMCPTransport
                 ELSE Getenv(e, "MCP_TRANSPORT")
    IN  IF TrimSpace(Getenv(e, "PAPERLESS_URL")) = "" \/ TrimSpace(Getenv(e, "PAPERLESS_TOKEN")) = ""
           \/ level \notin {"debug", "info", "warn", "error"}
           \/ ToLower(given) \notin {"stdio", "http"}
        THEN [cfg |-> NilConfig, err |-> Errorf("invalid configuration")]
        ELSE [cfg |-> Config(Getenv(e, "PAPERLESS_URL"), Getenv(e, "PAPERLESS_TOKEN"),
                             Getenv(e, "MCP_AUTH_TOKEN"), level, given,
                             IF Getenv(e, "MCP_HTTP_PORT") = "" THEN DefaultMCPHTTPPort
                             ELSE Getenv(e, "MCP_HTTP_PORT")),
              err |-> NoError]

Load(e) ==
    LET level == ToLower(IF Getenv(e, "LOG_LEVEL") = "" THEN DefaultLogLevel
                         ELSE Getenv(e, "LOG_LEVEL"))
        transport == ToLower(IF Getenv(e, "MCP_TRANSPORT") = "" THEN DefaultMCPTransport
                             ELSE Getenv(e, "MCP_TRANSPORT"))
    IN  IF TrimSpace(Getenv(e, "PAPERLESS_URL")) = ""
        THEN [cfg |-> NilConfig,
              err |-> Errorf("environment variable PAPERLESS_URL is required but not set")]
        ELSE IF TrimSpace(Getenv(e, "PAPERLESS_TOKEN")) = ""
        THEN [cfg |-> NilConfig,
              err |-> Errorf("environment variable PAPERLESS_TOKEN is required but not set")]
        ELSE IF level \notin {"debug", "info", "warn", "error"}
        THEN [cfg |-> NilConfig,
              err |-> ErrorfS("invalid log level: %s, allowed: debug, info, warn, error", level)]
        ELSE IF transport # "stdio" /\ transport # "http"
        THEN [cfg |-> NilConfig,
              err |-> ErrorfS("invalid MCP_TRANSPORT: %s, allowed: stdio, http", transport)]
        ELSE [cfg |-> Config(Getenv(e, "PAPERLESS_URL"), Getenv(e, "PAPERLESS_TOKEN"),
                             Getenv(e, "MCP_AUTH_TOKEN"), level, transport,
                             IF Getenv(e, "MCP_HTTP_PORT") = "" THEN DefaultMCPHTTPPort
                             ELSE Getenv(e, "MCP_HTTP_PORT")),
              err |-> NoError]

\* the two Config fields the Server's transports read
ServerConfig(c) ==
    [MCPTransport |-> c.MCPTransport, MCPAuthToken |-> c.MCPAuthToken,
     PaperlessURL |-> c.PaperlessURL]

-----------------------------------------------------------------------------
(* internal/mcp/transport.go: the goroutines of StartStdio and StartHTTP *)

ShutdownTimeout == 10
\* make(chan error, 1), make(chan os.Signal, 1)
ErrChanCap == 1
SigChanCap == 1

\* the goroutine's test before errChan <- err
sendsError_Always(transport, e) == e # "nil"

sendsError(transport, e) ==
    IF transport = "stdio" THEN e # "nil"
    ELSE e # "nil" /\ e # "ErrServerClosed"

\* what the serving call can return: ServeStdio nil or an error at any time,
\* ListenAndServe ErrServerClosed once Shutdown was called and another error before
ServeOutcomes(transport, shut) ==
    IF transport = "stdio" THEN {"nil", "other"}
    ELSE IF shut = <<>> THEN {"other"} ELSE {"ErrServerClosed"}

\* the error value of a serving call
ServeError(e) == <<[t |-> "serve", msg |-> e, status |-> 0, arg |-> ""]>>
DeadlineExceeded ==
    <<[t |-> "ctx", msg |-> "context deadline exceeded", status |-> 0, arg |-> ""]>>
CloseError ==
    <<[t |-> "net", msg |-> "close tcp: use of closed network connection", status |-> 0,
       arg |-> ""]>>
\* what http.Server.Shutdown can return besides nil
ShutdownErrors == {DeadlineExceeded, CloseError}

\* signal delivery by the runtime: a send that never blocks, to every
\* registered channel that has room
deliver(chans, registered) ==
    [c \in DOMAIN chans |->
        IF c \in registered /\ Len(chans[c]) < SigChanCap
        THEN Append(chans[c], "SIGINT") ELSE chans[c]]

-----------------------------------------------------------------------------
(* internal/mcp/server.go, tools.go: the registry *)

\* an InputSchema: a JSON schema of type object with typed properties
NoProperties == [k \in {} |-> "string"]
Schema(props, req) == [type |-> "object", properties |-> props, required |-> req]
\* a nil InputSchema, a nil Handler
NilSchema == [type |-> "nil", properties |-> NoProperties, required |-> {}]
NilHandler == ""

Tool(name, schema, h) == [Name |-> name, InputSchema |-> schema, Handler |-> h]

\* a variant that keeps the first registration of a name
RegisterTool_KeepFirst(reg, t) == IF t.Name \in DOMAIN reg THEN reg ELSE Put(reg, t.Name, t)

\* s.tools[tool.Name] = tool; the returned error is always nil
RegisterTool(reg, t) == Put(reg, t.Name, t)

\* the RegisterTool calls of registerTools, in source order
Registrations ==
    <<
       Tool("ping",
            Schema(NoProperties,
                   {}),
            "handlePing"),
       Tool("server_info",
            Schema(NoProperties,
                   {}),
            "handleServerInfo"),
       Tool("search_documents",
            Schema([query |-> "string", page |-> "integer", page_size |-> "integer"],
                   {"query"}),
            "handleSearchDocuments"),
       Tool("find_similar_documents",
            Schema([document_id |-> "integer", page |-> "integer", page_size |-> "integer"],
                   {"document_id"}),
            "handleFindSimilarDocuments"),
       Tool("get_document",
            Schema([document_id |-> "integer"],
                   {"document_id"}),
            "handleGetDocument"),
       Tool("get_document_content",
            Schema([document_id |-> "integer"],
                   {"document_id"}),
            "handleGetDocumentContent"),
       Tool("create_document",
            Schema([title |-> "string", correspondent |-> "integer", document_type |-> "integer", storage_path |-> "integer", tags |-> "array"],
                   {"title"}),
            "handleCreateDocument"),
       Tool("update_document",
            Schema([document_id |-> "integer", title |-> "string", correspondent |-> "integer", document_type |-> "integer", storage_path |-> "integer", tags |-> "array"],
                   {"document_id"}),
            "handleUpdateDocument"),
       Tool("delete_document",
            Schema([document_id |-> "integer"],
                   {"document_id"}),
            "handleDeleteDocument"),
       Tool("list_correspondents",
            Schema([page |-> "integer", page_size |-> "integer"],
                   {}),
            "handleListCorrespondents"),
       Tool("get_correspondent",
            Schema([correspondent_id |-> "integer"],
                   {"correspondent_id"}),
            "handleGetCorrespondent"),
       Tool("create_correspondent",
            Schema([name |-> "string", match |-> "string", matching_algorithm |-> "integer", is_insensitive |-> "boolean"],
                   {"name"}),
            "handleCreateCorrespondent"),
       Tool("update_correspondent",
            Schema([correspondent_id |-> "integer", name |-> "string", match |-> "string", matching_algorithm |-> "integer", is_insensitive |-> "boolean"],
                   {"correspondent_id"}),
            "handleUpdateCorrespondent"),
       Tool("delete_correspondent",
            Schema([correspondent_id |-> "integer"],
                   {"correspondent_id"}),
            "handleDeleteCorrespondent"),
       Tool("list_document_types",
            Schema([page |-> "integer", page_size |-> "integer"],
                   {}),
            "handleListDocumentTypes"),
       Tool("get_document_type",
            Schema([document_type_id |-> "integer"],
                   {"document_type_id"}),
            "handleGetDocumentType"),
       Tool("create_document_type",
            Schema([name |-> "string", match |-> "string", matching_algorithm |-> "integer", is_insensitive |-> "boolean"],
                   {"name"}),
            "handleCreateDocumentType"),
       Tool("update_document_type",
            Schema([document_type_id |-> "integer", name |-> "string", match |-> "string", matching_algorithm |-> "integer", is_insensitive |-> "boolean"],
                   {"document_type_id"}),
            "handleUpdateDocumentType"),
       Tool("delete_document_type",
            Schema([document_type_id |-> "integer"],
                   {"document_type_id"}),
            "handleDeleteDocumentType"),
       Tool("list_tags",
            Schema([page |-> "integer", page_size |-> "integer"],
                   {}),
            "handleListTags"),
       Tool("get_tag",
            Schema([tag_id |-> "integer"],
                   {"tag_id"}),
            "handleGetTag"),
       Tool("create_tag",
            Schema([name |-> "string", color |-> "string", match |-> "string", matching_algorithm |-> "integer", is_insensitive |-> "boolean", is_inbox_tag |-> "boolean"],
                   {"name", "color"}),
            "handleCreateTag"),
       Tool("update_tag",
            Schema([tag_id |-> "integer", name |-> "string", color |-> "string", match |-> "string", matching_algorithm |-> "integer", is_insensitive |-> "boolean", is_inbox_tag |-> "boolean"],
                   {"tag_id"}),
            "handleUpdateTag"),
       Tool("delete_tag",
            Schema([tag_id |-> "integer"],
                   {"tag_id"}),
            "handleDeleteTag"),
       Tool("list_custom_fields",
            Schema([page |-> "integer", page_size |-> "integer"],
                   {}),
            "handleListCustomFields"),
       Tool("get_custom_field",
            Schema([field_id |-> "integer"],
                   {"field_id"}),
            "handleGetCustomField"),
       Tool("create_custom_field",
            Schema([name |-> "string", data_type |-> "string"],
                   {"name", "data_type"}),
            "handleCreateCustomField"),
       Tool("update_custom_field",
            Schema([field_id |-> "integer", name |-> "string", data_type |-> "string"],
                   {"field_id"}),
            "handleUpdateCustomField"),
       Tool("delete_custom_field",
            Schema([field_id |-> "integer"],
                   {"field_id"}),
            "handleDeleteCustomField"),
       Tool("bulk_edit_documents",
            Schema([document_ids |-> "array", add_tags |-> "array", remove_tags |-> "array", set_correspondent |-> "integer", set_document_type |-> "integer", set_storage_path |-> "integer"],
                   {"document_ids"}),
            "handleBulkEditDocuments") >>

RECURSIVE registerAll(_, _)
registerAll(reg, seq) ==
    IF seq = <<>> THEN reg ELSE registerAll(RegisterTool(reg, Head(seq)), Tail(seq))

\* New: an empty map, then registerTools
registerTools == registerAll([n \in {} |-> Tool("", NilSchema, NilHandler)], Registrations)

\* a variant that returns after the first two registrations
New_Partial(c) ==
    [cfg |-> c,
     tools |-> registerAll([n \in {} |-> Tool("", NilSchema, NilHandler)],
                           SubSeq(Registrations, 1, 2))]

\* New(cfg): the Server it returns, its registry filled by registerTools
New(c) == [cfg |-> c, tools |-> registerTools]

\* len(s.tools)
GetToolCount(reg) == Cardinality(DOMAIN reg)
\* whether s.tools holds the name
HasTool(reg, name) == name \in DOMAIN reg
\* s.tools[name] with the comma-ok flag; the zero Tool when absent
GetToolInfo(reg, name) ==
    IF name \in DOMAIN reg THEN [tool |-> reg[name], exists |-> TRUE]
    ELSE [tool |-> Tool("", NilSchema, NilHandler), exists |-> FALSE]
\* the slice ListTools builds, in no particular order: each Tool with the
\* number of times it was appended
ListTools(reg) ==
    [t \in {reg[n] : n \in DOMAIN reg} |-> Cardinality({n \in DOMAIN reg : reg[n] = t})]
\* len of that slice
SliceLen(slice) ==
    Cardinality(UNION {{<<t, i>> : i \in 1..slice[t]} : t \in DOMAIN slice})

-----------------------------------------------------------------------------
(* internal/mcp/handlers.go: the dispatcher *)

\* tool.Handler(ctx, args) for the handler bound under the name h
Call(h, a, api) ==
    CASE h = "handlePing" -> handlePing(a, api)
      [] h = "handleServerInfo" -> handleServerInfo(a, api)
      [] h = "handleSearchDocuments" -> handleSearchDocuments(a, api)
      [] h = "handleFindSimilarDocuments" -> handleFindSimilarDocuments(a, api)
      [] h = "handleGetDocument" -> handleGetDocument(a, api)
      [] h = "handleGetDocumentContent" -> handleGetDocumentContent(a, api)
      [] h = "handleCreateDocument" -> handleCreateDocument(a, api)
      [] h = "handleUpdateDocument" -> handleUpdateDocument(a, api)
      [] h = "handleDeleteDocument" -> handleDeleteDocument(a, api)
      [] h = "handleListCorrespondents" -> handleListCorrespondents(a, api)
      [] h = "handleGetCorrespondent" -> handleGetCorrespondent(a, api)
      [] h = "handleCreateCorrespondent" -> handleCreateCorrespondent(a, api)
      [] h = "handleUpdateCorrespondent" -> handleUpdateCorrespondent(a, api)
      [] h = "handleDeleteCorrespondent" -> handleDeleteCorrespondent(a, api)
      [] h = "handleListDocumentTypes" -> handleListDocumentTypes(a, api)
      [] h = "handleGetDocumentType" -> handleGetDocumentType(a, api)
      [] h = "handleCreateDocumentType" -> handleCreateDocumentType(a, api)
      [] h = "handleUpdateDocumentType" -> handleUpdateDocumentType(a, api)
      [] h = "handleDeleteDocumentType" -> handleDeleteDocumentType(a, api)
      [] h = "handleListTags" -> handleListTags(a, api)
      [] h = "handleGetTag" -> handleGetTag(a, api)
      [] h = "handleCreateTag" -> handleCreateTag(a, api)
      [] h = "handleUpdateTag" -> handleUpdateTag(a, api)
      [] h = "handleDeleteTag" -> handleDeleteTag(a, api)
      [] h = "handleListStoragePaths" -> handleListStoragePaths(a, api)
      [] h = "handleGetStoragePath" -> handleGetStoragePath(a, api)
      [] h = "handleCreateStoragePath" -> handleCreateStoragePath(a, api)
      [] h = "handleUpdateStoragePath" -> handleUpdateStoragePath(a, api)
      [] h = "handleDeleteStoragePath" -> handleDeleteStoragePath(a, api)
      [] h = "handleListCustomFields" -> handleListCustomFields(a, api)
      [] h = "handleGetCustomField" -> handleGetCustomField(a, api)
      [] h = "handleCreateCustomField" -> handleCreateCustomField(a, api)
      [] h = "handleUpdateCustomField" -> handleUpdateCustomField(a, api)
      [] h = "handleDeleteCustomField" -> handleDeleteCustomField(a, api)
      [] h = "handleBulkEditDocuments" -> handleBulkEditDocuments(a, api)

\* ExecuteTool after the handler h, called with the bag a, returned r: a
\* handler error is wrapped, a handler result is passed on
executed_DropsCause(h, a, r) ==
    IF r.err # NoError
    THEN [result |-> NilResult, err |-> Errorf(ErrToolExecFailed),
          invoked |-> <<h>>, passed |-> <<a>>,
          hResult |-> r.result, hErr |-> r.err, sent |-> r.sent]
    ELSE [result |-> r.result, err |-> NoError,
          invoked |-> <<h>>, passed |-> <<a>>,
          hResult |-> r.result, hErr |-> r.err, sent |-> r.sent]

executed(h, a, r) ==
    IF r.err # NoError
    THEN [result |-> NilResult, err |-> Wrap(ErrToolExecFailed, r.err),
          invoked |-> <<h>>, passed |-> <<a>>,
          hResult |-> r.result, hErr |-> r.err, sent |-> r.sent]
    ELSE [result |-> r.result, err |-> NoError,
          invoked |-> <<h>>, passed |-> <<a>>,
          hResult |-> r.result, hErr |-> r.err, sent |-> r.sent]

\* the return of ExecuteTool when s.tools has no such name
notFound(toolName) ==
    [result |-> NilResult, err |-> ErrorfS(ErrToolNotFound, toolName),
     invoked |-> <<>>, passed |-> <<>>,
     hResult |-> NilResult, hErr |-> NoError, sent |-> <<>>]

\* a variant that runs the ping handler when the name is unknown
ExecuteTool_Fallback(reg, toolName, a, api) ==
    IF toolName \notin DOMAIN reg
    THEN executed("handlePing", a, Call("handlePing", a, api))
    ELSE executed(reg[toolName].Handler, a, Call(reg[toolName].Handler, a, api))

\* a variant that hands the handler an empty bag
ExecuteTool_DropsArgs(reg, toolName, a, api) ==
    IF toolName \notin DOMAIN reg
    THEN notFound(toolName)
    ELSE executed(reg[toolName].Handler, EmptyBag,
                  Call(reg[toolName].Handler, EmptyBag, api))

\* ExecuteTool(ctx, toolName, args): what it returns, what the handler
\* returned, which handlers ran with which bags and which requests went out
ExecuteTool(reg, toolName, a, api) ==
    IF toolName \notin DOMAIN reg
    THEN notFound(toolName)
    ELSE executed(reg[toolName].Handler, a, Call(reg[toolName].Handler, a, api))

-----------------------------------------------------------------------------
(* internal/mcp/server.go: the handler wrapper RegisterTool gives the SDK *)

\* request.Params.Arguments when the request carries none
NilArguments == [nil |-> TRUE]

\* Go values that are no map[string]interface{}: an int, and a struct value
\* under its JSON field names
GoInt(n) == [t |-> "int", v |-> n]
Struct(fields) == [struct |-> fields]

\* request.Params.Arguments.(map[string]interface{}) succeeds
IsMap(arguments) == DOMAIN arguments \cap {"nil", "struct", "t", "v"} = {}

\* json.Marshal of a field, then json.Unmarshal into interface{}: an int comes
\* back as a float64
roundTrip(v) == IF v.t = "int" THEN Num(2 * v.v) ELSE v

\* json.Unmarshal(jsonBytes, &args): a JSON object fills the map, any other
\* JSON text is an error, which the wrapper drops, and the map stays empty
unmarshal(arguments) ==
    IF "struct" \in DOMAIN arguments
    THEN [k \in DOMAIN arguments.struct |-> roundTrip(arguments.struct[k])]
    ELSE EmptyBag

\* the args map the wrapper builds from request.Params.Arguments
wrapperArgs(arguments) ==
    IF arguments = NilArguments THEN EmptyBag
    ELSE IF IsMap(arguments) THEN arguments
    ELSE IF marshal(arguments) # NoError THEN EmptyBag
    ELSE unmarshal(arguments)

\* what the wrapper returns for what ExecuteTool returned: the tool result
\* (error flag, error text, structured content) and the protocol error
wrapperReply_Propagates(r) ==
    IF r.err # NoError
    THEN [isError |-> TRUE, text |-> r.err, structured |-> NilResult, err |-> r.err]
    ELSE [isError |-> FALSE, text |-> NoError, structured |-> r.result, err |-> NoError]

wrapperReply(r) ==
    IF r.err # NoError
    THEN [isError |-> TRUE, text |-> r.err, structured |-> NilResult, err |-> NoError]
    ELSE [isError |-> FALSE, text |-> NoError, structured |-> r.result, err |-> NoError]

\* no wrapper call in progress
NoReply == [isError |-> FALSE, text |-> NoError, structured |-> NilResult, err |-> NoError]

-----------------------------------------------------------------------------
(* internal/mcp/transport.go: the HTTP handler chain of StartHTTP *)

\* http.Error(w, text, code) and the other answers, as what the client gets
\* and which inner handler the request reached
Answer(req, status, body, inner) ==
    [path |-> req.path, method |-> req.method, auth |-> req.auth,
     status |-> status, body |-> body, inner |-> inner]

HealthBody == [status |-> "ok", server |-> ServerName, version |-> ServerVersion]

handleHealth(req) ==
    IF req.method # "GET"
    THEN Answer(req, 405, [text |-> "Method not allowed"], "health")
    ELSE Answer(req, 200, HealthBody, "health")

\* the ServeMux of StartHTTP: two exact patterns, 404 for every other path;
\* what the SDK's streamable server answers is not part of this code
mux(req) ==
    IF req.path = HealthEndpoint THEN handleHealth(req)
    ELSE IF req.path = StreamableHTTPEndpoint THEN Answer(req, 0, [text |-> ""], "mcp")
    ELSE Answer(req, 404, [text |-> "404 page not found"], "notfound")

authMiddleware_GatesHealth(c, req) ==
    IF c.MCPAuthToken = "" THEN mux(req)
    ELSE IF req.auth # "Bearer " \o c.MCPAuthToken
         THEN Answer(req, 401, [text |-> "Unauthorized"], "none")
         ELSE mux(req)

authMiddleware_PrefixOnly(c, req) ==
    IF c.MCPAuthToken = "" THEN mux(req)
    ELSE IF req.path = HealthEndpoint THEN mux(req)
    ELSE IF req.auth = ""
         THEN Answer(req, 401, [text |-> "Unauthorized"], "none")
         ELSE mux(req)

authMiddleware(c, req) ==
    IF c.MCPAuthToken = "" THEN mux(req)
    ELSE IF req.path = HealthEndpoint THEN mux(req)
    ELSE IF req.auth # "Bearer " \o c.MCPAuthToken
         THEN Answer(req, 401, [text |-> "Unauthorized"], "none")
         ELSE mux(req)

\* no HTTP exchange in progress
NoRequest == [path |-> "", method |-> "", auth |-> "", status |-> 0,
              body |-> [text |-> ""], inner |-> "none"]

-----------------------------------------------------------------------------
(* The calls the model makes: argument bags and backing API answers *)

\* every bag that gives some of the keys of doms a value of that key's set
RECURSIVE BagsOver(_, _)
BagsOver(keys, doms) ==
    IF keys = {} THEN {EmptyBag}
    ELSE LET k == CHOOSE x \in keys : TRUE
             rest == BagsOver(keys \ {k}, doms)
         IN  rest \cup {Put(b, k, v) : b \in rest, v \in doms[k]}

Bags(doms) == BagsOver(DOMAIN doms, doms)

IdVals == {Num(h) : h \in -MaxHalf..MaxHalf} \cup {Str("1"), Null}
FewIdVals == {Num(-2), Num(1), Num(2), Num(MaxHalf), Str("1")}
PageVals == {Num(-2)} \cup {Num(h) : h \in 0..MaxHalf + 1} \cup {Str("2")}
PageSizeVals ==
    {Num(2 * n) : n \in {-1, 0, 1, DefaultPageSize, MaxPageSize, 500}}
    \cup {Num(2 * (MaxPageSize + k)) : k \in 1..MaxOver}
    \cup {Num(1), Num(2 * MaxPageSize + 1), Str("10")}
FewPageVals == {Num(-2), Num(4)}
FewPageSizeVals == {Num(0), Num(20), Num(2 * (MaxPageSize + MaxOver)), Str("10")}
NameVals == {Str("X"), Str(""), Num(2)}
AlgVals == {Num(MaxHalf), Str("1")}
FlagVals == {Bool(TRUE), Str("yes")}
TagsVals == {Arr(<<>>), Arr(<<Num(2), Str("x"), Num(MaxHalf)>>), Str("t")}

ListBags == Bags([page |-> PageVals, page_size |-> PageSizeVals])

IdBags(idKey) == Bags([x \in {idKey} |-> IdVals])

UpdateDoms(idKey) ==
    [x \in {idKey, "name", "matching_algorithm", "is_insensitive", "owner"} |->
        CASE x = idKey -> FewIdVals
          [] x = "name" -> NameVals
          [] x = "matching_algorithm" -> AlgVals
          [] x = "is_insensitive" -> FlagVals
          [] x = "owner" -> {Num(2)}]

CreateDoms ==
    [name |-> NameVals, match |-> {Str("m"), Num(2)}, matching_algorithm |-> AlgVals,
     is_insensitive |-> FlagVals, owner |-> {Num(2)}]

\* the bags a handler is called with
ArgsOf(h) ==
    CASE h \in {"handlePing", "handleServerInfo"} -> {EmptyBag, [page |-> Num(2)]}
      [] h = "handleSearchDocuments" ->
            Bags([query |-> {Str(""), Str("invoice"), Str("a b"), Num(2)},
                  page |-> FewPageVals, page_size |-> FewPageSizeVals])
      [] h = "handleFindSimilarDocuments" ->
            Bags([document_id |-> IdVals, page |-> FewPageVals,
                  page_size |-> FewPageSizeVals])
      [] h \in {"handleGetDocument", "handleGetDocumentContent", "handleDeleteDocument"} ->
            IdBags("document_id")
      [] h = "handleCreateDocument" ->
            Bags([title |-> NameVals, correspondent |-> AlgVals,
                  document_type |-> {Num(2)}, storage_path |-> {Num(2)},
                  tags |-> TagsVals])
      [] h = "handleUpdateDocument" ->
            Bags([document_id |-> FewIdVals, title |-> NameVals,
                  correspondent |-> AlgVals, tags |-> TagsVals, owner |-> {Num(2)}])
      [] h \in {"handleListCorrespondents", "handleListDocumentTypes", "handleListTags",
                "handleListStoragePaths", "handleListCustomFields"} -> ListBags
      [] h \in {"handleGetCorrespondent", "handleDeleteCorrespondent"} ->
            IdBags("correspondent_id")
      [] h \in {"handleGetDocumentType", "handleDeleteDocumentType"} ->
            IdBags("document_type_id")
      [] h \in {"handleGetTag", "handleDeleteTag"} -> IdBags("tag_id")
      [] h \in {"handleGetStoragePath", "handleDeleteStoragePath"} ->
            IdBags("storage_path_id")
      [] h \in {"handleGetCustomField", "handleDeleteCustomField"} -> IdBags("field_id")
      [] h \in {"handleCreateCorrespondent", "handleCreateDocumentType"} -> Bags(CreateDoms)
      [] h = "handleCreateTag" ->
            Bags([name |-> NameVals, color |-> {Str("#ff0000"), Str("")},
                  match |-> {Str("m"), Num(2)}, matching_algorithm |-> AlgVals,
                  is_insensitive |-> FlagVals, is_inbox_tag |-> {Bool(TRUE)}])
      [] h = "handleCreateStoragePath" ->
            Bags([name |-> NameVals, path |-> NameVals, match |-> {Str("m"), Num(2)},
                  matching_algorithm |-> AlgVals, is_insensitive |-> FlagVals])
      [] h = "handleCreateCustomField" ->
            Bags([name |-> NameVals, data_type |-> {Str("string"), Str(""), Null},
                  owner |-> {Num(2)}])
      [] h = "handleUpdateCorrespondent" -> Bags(UpdateDoms("correspondent_id"))
      [] h = "handleUpdateDocumentType" -> Bags(UpdateDoms("document_type_id"))
      [] h = "handleUpdateStoragePath" -> Bags(UpdateDoms("storage_path_id"))
      [] h = "handleUpdateTag" ->
            Bags([tag_id |-> FewIdVals, name |-> NameVals, color |-> {Str("#ff0000")},
                  matching_algorithm |-> AlgVals, is_insensitive |-> FlagVals,
                  owner |-> {Num(2)}])
      [] h = "handleUpdateCustomField" ->
            Bags([field_id |-> FewIdVals, name |-> NameVals,
                  data_type |-> {Str("string"), Str(""), Null}, owner |-> {Num(2)}])
      [] h = "handleBulkEditDocuments" ->
            Bags([document_ids |-> {Arr(<<>>), Arr(<<Num(2), Num(4), Num(6)>>),
                                    Arr(<<Num(2), Num(0)>>), Num(2)},
                  add_tags |-> {Arr(<<Num(10)>>)}, set_correspondent |-> {Num(4)}])

\* the answers of the backing API a handler is run against
AnswersOf(h) ==
    IF h \in {"handleSearchDocuments", "handleFindSimilarDocuments",
              "handleListCorrespondents", "handleListDocumentTypes", "handleListTags",
              "handleListStoragePaths", "handleListCustomFields"}
    THEN ListAnswers ELSE ItemAnswers

AllHandlers ==
    {Registrations[i].Handler : i \in DOMAIN Registrations}
    \cup {"handleListStoragePaths", "handleGetStoragePath", "handleCreateStoragePath",
          "handleUpdateStoragePath", "handleDeleteStoragePath"}

\* the handlers some tool is bound to
Bound(reg) == {reg[n].Handler : n \in DOMAIN reg}

\* names ExecuteTool is called with that are not tools of the server
UnknownNames == {"nonexistent_tool", "list_storage_paths", ""}

\* the configurations config.Load can return, as far as the server reads them
AuthToken == "secret"
Configs ==
    {[MCPTransport |-> "stdio", MCPAuthToken |-> "", PaperlessURL |-> "http://localhost:8000"],
     [MCPTransport |-> "http", MCPAuthToken |-> "", PaperlessURL |-> "http://localhost:8000/"],
     [MCPTransport |-> "http", MCPAuthToken |-> AuthToken,
      PaperlessURL |-> "http://localhost:8000"],
     [MCPTransport |-> "stdio", MCPAuthToken |-> "", PaperlessURL |-> "http://[::1"]}
\* the configuration package code makes a Server with
TestConfig ==
    [MCPTransport |-> "stdio", MCPAuthToken |-> "", PaperlessURL |-> "http://localhost:8000"]
\* the configurations package code makes a Server or a client with: the one
\* of the tests, and one whose URL does not parse
PackageConfigs == {TestConfig, [TestConfig EXCEPT !.PaperlessURL = "http://[::1"]}

\* the tools package code registers after New, and the names it looks up
ExtraTools ==
    {Tool("ping", Schema(NoProperties, {}), "handleServerInfo"),
     Tool("test_tool", Schema(NoProperties, {}), "handlePing")}
\* the statuses package code tries the verbs with: those of the answers and
\* the ends of the success range
ClientStatuses == Statuses \cup {199, 299, 300}

\* the environments the process is started in
Envs ==
    [PAPERLESS_URL : {"", " ", "http://paperless", "http://[::1"},
     PAPERLESS_TOKEN : {"", "  ", " token "},
     MCP_AUTH_TOKEN : {"", AuthToken},
     LOG_LEVEL : {"", "DEBUG", "Warn", "TRACE"},
     MCP_TRANSPORT : {"", "stdio", "HTTP", "Stdio", "SSE"},
     MCP_HTTP_PORT : {"", "9090"}]

\* the argument bags of a call followed beside another call or inside a
\* process: get_tag with the IDs 1 and 2 and with a string, ping with none
CallArgs(toolName) ==
    IF toolName = "get_tag"
    THEN {[k \in {"tag_id"} |-> v] : v \in {Num(2), Num(4), Str("1")}}
    ELSE {EmptyBag}

\* the bodies package code hands the verbs: none, a map, a value that does
\* not marshal
ClientBodies == {NilBody, [name |-> Str("X")], NaN}

\* arguments of a tools/call that are no map: a JSON array, a value that does
\* not marshal, a struct
OtherArguments == {Arr(<<Str("a")>>), NaN, Struct([tag_id |-> GoInt(2)])}

\* the calls beside which a second exchange is followed, and that exchange:
\* its requests, the tools it calls, the answers it gets
Overlapped == {"get_tag", "delete_tag"}
OverlapRequests ==
    {[path |-> HealthEndpoint, method |-> "GET", auth |-> ""],
     [path |-> StreamableHTTPEndpoint, method |-> "POST", auth |-> "Bearer wrong"],
     [path |-> StreamableHTTPEndpoint, method |-> "POST", auth |-> "Bearer " \o AuthToken]}
OverlapTools == {"get_tag", "ping"}
OverlapAnswers == {a \in ItemAnswers : a.id = 1 /\ a.read /\ a.json /\ a.status \in {200, 404}}

\* the requests and the call a process serves, and the answers it gets
ProcRequests ==
    {[path |-> HealthEndpoint, method |-> "GET", auth |-> ""],
     [path |-> StreamableHTTPEndpoint, method |-> "POST", auth |-> "Bearer " \o AuthToken]}
ProcTools == {"get_tag"}
ProcAnswers == {a \in ItemAnswers : a.id = 1 /\ a.read /\ a.json /\ a.status = 200}

LookupNames == {"ping", "test_tool", "nonexistent_tool"}

\* the path package code calls the verbs with, and the answers it gets: those
\* to a request for one entity, and a plain answer with each of the statuses
ClientPath == ItemPath("documents", 1)
ClientAnswers ==
    ItemAnswers
    \cup {[a EXCEPT !.status = status, !.json = bodyAllowedForStatus(status)] :
            a \in {b \in ItemAnswers : GoodAnswer(b) /\ b.id = 1},
            status \in ClientStatuses}

\* the direct calls beside which a second caller of the package is followed
ConcurrentHandlers == {"handleGetStoragePath", "handleDeleteStoragePath"}
ConcurrentVerbs == {"GET", "DELETE"}

\* the positions of a call that has sent its request and waits for the
\* answer: ExecuteTool, a handler called directly, a verb of the client
Waiting == {"pending", "direct.pending", "client.pending"}

\* the requests that reach the HTTP server
Paths == {HealthEndpoint, StreamableHTTPEndpoint, "/health/", "/"}
Methods == {"GET", "POST", "DELETE"}
AuthHeaders == {"", "Bearer " \o AuthToken, "Bearer wrong", AuthToken}

-----------------------------------------------------------------------------
(* The state machine *)

NoTool == Tool("", NilSchema, NilHandler)

\* no process is followed: the goroutines and channels of main are not looked at
NoEnv ==
    [PAPERLESS_URL |-> "", PAPERLESS_TOKEN |-> "", MCP_AUTH_TOKEN |-> "", LOG_LEVEL |-> "",
     MCP_TRANSPORT |-> "", MCP_HTTP_PORT |-> ""]
NoConf == [cfg |-> NilConfig, err |-> NoError]
NoChans == [c \in {"main", "transport"} |-> <<>>]
ProcAt(m) ==
    /\ conf = NoConf
    /\ mpc = m
    /\ ctxDone = FALSE
    /\ notified = {}
    /\ sigChans = NoChans
    /\ sigpc = "none"
    /\ errChan = <<>>
    /\ gpc = "none"
    /\ gErr = "nil"
    /\ shutdowns = <<>>
    /\ ret = NoError
    /\ delivered = 0

ProcIdle == ProcAt("none")

\* no second exchange is in progress
NoExchange ==
    [http |-> NoRequest, pc |-> "idle", tool |-> "", args |-> EmptyBag, resp |-> NoAnswer,
     sent |-> <<>>, result |-> NilResult, err |-> NoError, reply |-> NoReply]

\* no call is in progress
NoCallYet ==
    /\ pc = "idle"
    /\ tool = ""
    /\ args = EmptyBag
    /\ resp = NoAnswer
    /\ invoked = <<>>
    /\ hResult = NilResult
    /\ hErr = NoError
    /\ sent = <<>>
    /\ result = NilResult
    /\ err = NoError
    /\ regTool = NoTool
    /\ passed = <<>>
    /\ reply = NoReply
    /\ http = NoRequest
    /\ other = NoExchange

\* no Server exists yet and no call is in progress
InitCall ==
    /\ phase = "start"
    /\ tools = [n \in {} |-> NoTool]
    /\ names = {}
    /\ NoCallYet

\* the process has its configuration; no Server exists yet
Init ==
    /\ cfg \in Configs
    /\ InitCall
    /\ env = NoEnv
    /\ ProcIdle

\* what a call leaves of itself: nothing
NoCall ==
    /\ tool' = ""
    /\ args' = EmptyBag
    /\ resp' = NoAnswer
    /\ invoked' = <<>>
    /\ hResult' = NilResult
    /\ hErr' = NoError
    /\ sent' = <<>>
    /\ passed' = <<>>
    /\ reply' = NoReply

\* main: mcp.New(cfg) runs registerTools to its end and returns the Server
MainNew ==
    /\ phase = "start"
    /\ phase' = "created"
    /\ tools' = New(cfg).tools
    /\ names' = {Registrations[i].Name : i \in DOMAIN Registrations}
    /\ UNCHANGED <<cfg, pc, tool, args, resp, invoked, hResult, hErr, sent, result, err,
                   regTool, passed, reply, http>>
    /\ UNCHANGED <<procVars, other>>

\* package code makes a Server of its own and starts no transport
TestNew ==
    /\ phase = "start"
    /\ phase' = "package"
    /\ \E c \in PackageConfigs :
        /\ cfg' = c
        /\ tools' = New(c).tools
    /\ names' = {Registrations[i].Name : i \in DOMAIN Registrations}
    /\ UNCHANGED <<pc, tool, args, resp, invoked, hResult, hErr, sent, result, err,
                   regTool, passed, reply, http>>
    /\ UNCHANGED <<procVars, other>>

\* main's switch on cfg.MCPTransport, taken once New has returned
StartStdio ==
    /\ phase = "created"
    /\ cfg.MCPTransport = "stdio"
    /\ phase' = "stdio"
    /\ UNCHANGED <<tools, cfg, names, pc, tool, args, resp, invoked, hResult, hErr, sent,
                   result, err, regTool, passed, reply, http>>
    /\ UNCHANGED <<procVars, other>>

StartHTTP ==
    /\ phase = "created"
    /\ cfg.MCPTransport = "http"
    /\ phase' = "http"
    /\ UNCHANGED <<tools, cfg, names, pc, tool, args, resp, invoked, hResult, hErr, sent,
                   result, err, regTool, passed, reply, http>>
    /\ UNCHANGED <<procVars, other>>

\* ExecuteTool runs up to the request its handler sends and waits there for
\* the backing API; a call that sends no request runs to its return. invoked,
\* passed and sent are what the call did before any answer
Execute(toolName, a, answers) ==
    /\ \E api \in answers :
        \E r \in {ExecuteTool(tools, toolName, a, api)} :
         /\ tool' = toolName
         /\ args' = a
         /\ resp' = NoAnswer
         /\ invoked' = r.invoked
         /\ passed' = r.passed
         /\ sent' = r.sent
         /\ pc' = IF r.sent = <<>> THEN "executed" ELSE "pending"
         /\ hResult' = IF r.sent = <<>> THEN r.hResult ELSE NilResult
         /\ hErr' = IF r.sent = <<>> THEN r.hErr ELSE NoError
         /\ result' = IF r.sent = <<>> THEN r.result ELSE NilResult
         /\ err' = IF r.sent = <<>> THEN r.err ELSE NoError
         /\ reply' = IF r.sent = <<>> THEN wrapperReply(r) ELSE NoReply
    /\ UNCHANGED <<tools, phase, cfg, names, regTool, http>>
    /\ UNCHANGED <<procVars, other>>

\* the backing API answers the request of the waiting call and ExecuteTool
\* runs to its return; reply is what lines 110-116 of the handler wrapper
\* make of that return
Answered(answers) ==
    /\ pc = "pending"
    /\ \E api \in answers :
        \E r \in {ExecuteTool(tools, tool, args, api)} :
         /\ resp' = api
         /\ sent' = r.sent
         /\ hResult' = r.hResult
         /\ hErr' = r.hErr
         /\ result' = r.result
         /\ err' = r.err
         /\ reply' = wrapperReply(r)
    /\ pc' = "executed"
    /\ UNCHANGED <<tools, phase, cfg, names, regTool, http, tool, args, invoked, passed>>
    /\ UNCHANGED <<procVars, other>>

ExecuteReturn == pc = "pending" /\ Answered(AnswersOf(invoked[1]))

\* a transport hands a tools/call to the handler wrapper of a registered
\* tool: over stdio at any time, over HTTP inside a POST the gate let through
ExecuteRegistered ==
    /\ \/ phase = "stdio" /\ pc = "idle"
       \/ phase = "http" /\ pc = "mcp" /\ http.method = "POST"
    /\ \E toolName \in DOMAIN tools :
        \E a \in ArgsOf(tools[toolName].Handler) \cup {NilArguments} \cup OtherArguments :
            Execute(toolName, wrapperArgs(a), AnswersOf(tools[toolName].Handler))

\* package code calls ExecuteTool itself: with a name that is no tool ...
ExecuteUnknown ==
    /\ phase = "package"
    /\ pc = "idle"
    /\ other = NoExchange
    /\ \E toolName \in UnknownNames \ DOMAIN tools :
        \E a \in IdBags("document_id") : Execute(toolName, a, ItemAnswers)

\* ... and with the name of a tool
ExecuteDirect ==
    /\ phase = "package"
    /\ pc = "idle"
    /\ other = NoExchange
    /\ \E toolName \in LookupNames \cap DOMAIN tools :
        \E a \in ArgsOf(tools[toolName].Handler) :
            Execute(toolName, a, AnswersOf(tools[toolName].Handler))

\* a handler no tool is bound to runs only when package code calls the
\* method: it runs up to the request it sends and waits there for the backing
\* API; a call that sends no request runs to its return
CallDirect ==
    /\ phase = "package"
    /\ pc = "idle"
    /\ other = NoExchange
    /\ \E h \in AllHandlers \ Bound(tools) :
        \E a \in ArgsOf(h), api \in AnswersOf(h) :
            \E r \in {Call(h, a, api)} :
              /\ pc' = IF r.sent = <<>> THEN "direct" ELSE "direct.pending"
              /\ tool' = ""
              /\ args' = a
              /\ resp' = NoAnswer
              /\ invoked' = <<h>>
              /\ passed' = <<a>>
              /\ hResult' = IF r.sent = <<>> THEN r.result ELSE NilResult
              /\ hErr' = IF r.sent = <<>> THEN r.err ELSE NoError
              /\ sent' = r.sent
              /\ UNCHANGED <<tools, result, err, phase, cfg, names, regTool, reply, http>>
    /\ UNCHANGED <<procVars, other>>

\* the backing API answers the request of the waiting handler, which runs to
\* its return
DirectReturn ==
    /\ pc = "direct.pending"
    /\ \E api \in AnswersOf(invoked[1]) :
        \E r \in {Call(invoked[1], args, api)} :
          /\ resp' = api
          /\ hResult' = r.result
          /\ hErr' = r.err
          /\ sent' = r.sent
    /\ pc' = "direct"
    /\ UNCHANGED <<tools, result, err, phase, cfg, names, regTool, reply, http, tool, args,
                   invoked, passed>>
    /\ UNCHANGED <<procVars, other>>

\* package code calls RegisterTool after New; err is the error it returns
Register ==
    /\ phase = "package"
    /\ pc = "idle"
    /\ other = NoExchange
    /\ \E t \in ExtraTools :
        /\ tools' = RegisterTool(tools, t)
        /\ names' = names \cup {t.Name}
        /\ regTool' = t
        /\ tool' = t.Name
    /\ pc' = "registered"
    /\ err' = NoError
    /\ UNCHANGED <<phase, cfg, args, resp, invoked, hResult, hErr, sent, result, passed,
                   reply, http>>
    /\ UNCHANGED <<procVars, other>>

\* package code reads the registry; result is what the method returns
CallHasTool ==
    /\ phase = "package"
    /\ pc = "idle"
    /\ other = NoExchange
    /\ \E name \in LookupNames :
        /\ tool' = name
        /\ result' = [exists |-> HasTool(tools, name)]
    /\ pc' = "HasTool"
    /\ UNCHANGED <<tools, phase, cfg, names, args, resp, invoked, hResult, hErr, sent, err,
                   regTool, passed, reply, http>>
    /\ UNCHANGED <<procVars, other>>

CallGetToolInfo ==
    /\ phase = "package"
    /\ pc = "idle"
    /\ other = NoExchange
    /\ \E name \in LookupNames :
        /\ tool' = name
        /\ result' = GetToolInfo(tools, name)
    /\ pc' = "GetToolInfo"
    /\ UNCHANGED <<tools, phase, cfg, names, args, resp, invoked, hResult, hErr, sent, err,
                   regTool, passed, reply, http>>
    /\ UNCHANGED <<procVars, other>>

CallListTools ==
    /\ phase = "package"
    /\ pc = "idle"
    /\ other = NoExchange
    /\ result' = [tools |-> ListTools(tools)]
    /\ pc' = "ListTools"
    /\ UNCHANGED <<tools, phase, cfg, names, tool, args, resp, invoked, hResult, hErr, sent,
                   err, regTool, passed, reply, http>>
    /\ UNCHANGED <<procVars, other>>

CallGetToolCount ==
    /\ phase = "package"
    /\ pc = "idle"
    /\ other = NoExchange
    /\ result' = [count |-> GetToolCount(tools)]
    /\ pc' = "GetToolCount"
    /\ UNCHANGED <<tools, phase, cfg, names, tool, args, resp, invoked, hResult, hErr, sent,
                   err, regTool, passed, reply, http>>
    /\ UNCHANGED <<procVars, other>>

\* package code calls a verb of the client itself: the verb marshals the
\* body, builds the request, sends it and waits for the backing API; a call
\* that sends nothing returns at once. hErr is the error the verb returns
ClientCall ==
    /\ phase = "package"
    /\ pc = "idle"
    /\ other = NoExchange
    /\ \E verb \in Verbs, api \in ClientAnswers :
          \E body \in IF verb \in {"GET", "DELETE"} THEN {NilBody} ELSE ClientBodies :
          \E r \in {ClientDo(verb, ClientPath, body, api)} :
            /\ pc' = IF r.sent = <<>> THEN "client" ELSE "client.pending"
            /\ resp' = NoAnswer
            /\ hErr' = IF r.sent = <<>> THEN r.err ELSE NoError
            /\ sent' = r.sent
            /\ tool' = verb
            /\ passed' = <<body>>
    /\ UNCHANGED <<tools, phase, cfg, names, args, invoked, hResult, result, err,
                   regTool, reply, http>>
    /\ UNCHANGED <<procVars, other>>

\* the backing API answers the request of the waiting verb: httpClient.Do
\* returns, the body is read and the verb computes its error
ClientReturn ==
    /\ pc = "client.pending"
    /\ \E api \in ClientAnswers :
        \E r \in {ClientDo(tool, ClientPath, passed[1], api)} :
          /\ resp' = api
          /\ hErr' = r.err
          /\ sent' = r.sent
    /\ pc' = "client"
    /\ UNCHANGED <<tools, phase, cfg, names, args, invoked, hResult, result, err,
                   regTool, reply, http, tool, passed>>
    /\ UNCHANGED <<procVars, other>>

\* while a handler or a verb called by package code waits for the backing
\* API, a second goroutine of the package calls ExecuteTool on the same
\* Server: it runs up to the request its handler sends, or to the return;
\* reply is what the handler wrapper would make of that return. The second
\* caller is followed beside the handlers and verbs of ConcurrentHandlers and
\* ConcurrentVerbs
ExecuteConcurrent ==
    /\ phase = "package"
    /\ pc \in Waiting
    /\ invoked \in {<<h>> : h \in ConcurrentHandlers} \/ tool \in ConcurrentVerbs
    /\ other = NoExchange
    /\ \E toolName \in OverlapTools \cap DOMAIN tools :
        \E a \in CallArgs(toolName), api \in OverlapAnswers :
            \E r \in {ExecuteTool(tools, toolName, a, api)} :
                other' = IF r.sent = <<>>
                         THEN [other EXCEPT !.pc = "executed", !.tool = toolName,
                                            !.args = a, !.result = r.result,
                                            !.err = r.err, !.reply = wrapperReply(r)]
                         ELSE [other EXCEPT !.pc = "pending", !.tool = toolName,
                                            !.args = a, !.sent = r.sent]
    /\ UNCHANGED <<tools, phase, cfg, names, pc, tool, args, resp, invoked, hResult, hErr,
                   sent, result, err, regTool, passed, reply, http>>
    /\ UNCHANGED procVars

\* the HTTP server takes one request through authMiddleware and the mux; a
\* request for the MCP endpoint that got through is then with the SDK
ServeHTTP ==
    /\ phase = "http"
    /\ pc = "idle"
    /\ other = NoExchange
    /\ \E path \in Paths, method \in Methods, auth \in AuthHeaders :
        \E w \in {authMiddleware(cfg, [path |-> path, method |-> method, auth |-> auth])} :
            /\ http' = w
            /\ pc' = IF w.inner = "mcp" THEN "mcp" ELSE "served"
    /\ UNCHANGED <<tools, phase, cfg, names, tool, args, resp, invoked, hResult, hErr, sent,
                   result, err, regTool, passed, reply>>
    /\ UNCHANGED <<procVars, other>>

\* while a call waits for the backing API the HTTP server takes a second
\* request, in a goroutine of its own, through authMiddleware and the mux
ServeOverlapped ==
    /\ phase = "http"
    /\ pc = "pending"
    /\ tool \in Overlapped
    /\ other = NoExchange
    /\ \E req \in OverlapRequests :
        \E w \in {authMiddleware(cfg, req)} :
            other' = [NoExchange EXCEPT !.http = w,
                                        !.pc = IF w.inner = "mcp" THEN "mcp" ELSE "served"]
    /\ UNCHANGED <<tools, phase, cfg, names, pc, tool, args, resp, invoked, hResult, hErr,
                   sent, result, err, regTool, passed, reply, http>>
    /\ UNCHANGED procVars

\* the second request is a tools/call: its handler wrapper and ExecuteTool
\* run up to the request the handler sends, or to the return
ExecuteOverlapped ==
    /\ other.pc = "mcp"
    /\ \E toolName \in OverlapTools :
        \E a \in CallArgs(toolName), api \in OverlapAnswers :
            \E r \in {ExecuteTool(tools, toolName, wrapperArgs(a), api)} :
                other' = IF r.sent = <<>>
                         THEN [other EXCEPT !.pc = "executed", !.tool = toolName,
                                            !.args = wrapperArgs(a), !.result = r.result,
                                            !.err = r.err, !.reply = wrapperReply(r)]
                         ELSE [other EXCEPT !.pc = "pending", !.tool = toolName,
                                            !.args = wrapperArgs(a), !.sent = r.sent]
    /\ UNCHANGED <<tools, phase, cfg, names, pc, tool, args, resp, invoked, hResult, hErr,
                   sent, result, err, regTool, passed, reply, http>>
    /\ UNCHANGED procVars

\* the backing API answers the request of the second call
AnswerOverlapped ==
    /\ other.pc = "pending"
    /\ \E api \in OverlapAnswers :
        \E r \in {ExecuteTool(tools, other.tool, other.args, api)} :
            other' = [other EXCEPT !.pc = "executed", !.resp = api, !.sent = r.sent,
                                   !.result = r.result, !.err = r.err,
                                   !.reply = wrapperReply(r)]
    /\ UNCHANGED <<tools, phase, cfg, names, pc, tool, args, resp, invoked, hResult, hErr,
                   sent, result, err, regTool, passed, reply, http>>
    /\ UNCHANGED procVars

\* the second exchange is over
ReturnOverlapped ==
    /\ other.pc \in {"served", "executed"}
    /\ other' = NoExchange
    /\ UNCHANGED <<tools, phase, cfg, names, pc, tool, args, resp, invoked, hResult, hErr,
                   sent, result, err, regTool, passed, reply, http>>
    /\ UNCHANGED procVars

\* the caller has its answer; nothing of the call is kept
Return ==
    /\ pc \notin {"idle"} \cup Waiting
    /\ pc' = "idle"
    /\ NoCall
    /\ result' = NilResult
    /\ err' = NoError
    /\ regTool' = NoTool
    /\ http' = NoRequest
    /\ UNCHANGED <<tools, phase, cfg, names>>
    /\ UNCHANGED <<procVars, other>>

Next ==
    \/ MainNew \/ TestNew \/ StartStdio \/ StartHTTP
    \/ ExecuteRegistered \/ ExecuteUnknown \/ ExecuteDirect \/ ExecuteReturn
    \/ CallDirect \/ DirectReturn
    \/ Register \/ CallHasTool \/ CallGetToolInfo \/ CallListTools \/ CallGetToolCount
    \/ ClientCall \/ ClientReturn \/ ExecuteConcurrent
    \/ ServeHTTP \/ ServeOverlapped \/ ExecuteOverlapped \/ AnswerOverlapped
    \/ ReturnOverlapped \/ Return

Spec == Init /\ [][Next]_vars

-----------------------------------------------------------------------------
(* The process: main, its signal goroutine, and the goroutines and channels *)
(* of StartStdio and StartHTTP.                                             *)

NoServerConfig == [MCPTransport |-> "", MCPAuthToken |-> "", PaperlessURL |-> ""]

MainInit ==
    /\ cfg = NoServerConfig
    /\ InitCall
    /\ env \in Envs
    /\ ProcAt("load")

\* the process has not ended
Running ==
    mpc \notin {"none", "exit.config", "exit.transport", "exit.server", "done", "killed"}

\* the calls of a process leave the call in progress and the registry alone
NoCallStep ==
    UNCHANGED <<pc, tool, args, resp, invoked, hResult, hErr, sent, result, err, regTool,
                passed, reply, http, other, env>>

\* main: cfg, err := config.Load(); os.Exit(1) on an error
LoadConfig ==
    /\ mpc = "load"
    /\ \E r \in {Load(env)} :
        /\ conf' = r
        /\ mpc' = IF r.err # NoError THEN "exit.config" ELSE "new"
        /\ cfg' = IF r.err # NoError THEN cfg ELSE ServerConfig(r.cfg)
    /\ NoCallStep
    /\ UNCHANGED <<tools, names, phase, ctxDone, notified, sigChans, sigpc, errChan, gpc,
                   gErr, shutdowns, ret, delivered>>

\* main: mcp.New(cfg)
ProcNew ==
    /\ mpc = "new"
    /\ mpc' = "notify"
    /\ phase' = "created"
    /\ tools' = New(cfg).tools
    /\ names' = {Registrations[i].Name : i \in DOMAIN Registrations}
    /\ NoCallStep
    /\ UNCHANGED <<cfg, conf, ctxDone, notified, sigChans, sigpc, errChan, gpc, gErr,
                   shutdowns, ret, delivered>>

\* main: context.WithCancel, signal.Notify(sigChan, ...), go func() { <-sigChan; cancel() }
MainNotify ==
    /\ mpc = "notify"
    /\ mpc' = "switch"
    /\ notified' = notified \cup {"main"}
    /\ sigpc' = "recv"
    /\ NoCallStep
    /\ UNCHANGED <<tools, names, phase, cfg, conf, ctxDone, sigChans, errChan, gpc, gErr,
                   shutdowns, ret, delivered>>

\* main: switch cfg.MCPTransport; the default branch exits
Switch ==
    /\ mpc = "switch"
    /\ mpc' = CASE conf.cfg.MCPTransport = "stdio" -> "stdio.start"
                [] conf.cfg.MCPTransport = "http" -> "http.start"
                [] OTHER -> "exit.transport"
    /\ phase' = IF conf.cfg.MCPTransport \in {"stdio", "http"}
                THEN conf.cfg.MCPTransport ELSE phase
    /\ NoCallStep
    /\ UNCHANGED <<tools, names, cfg, conf, ctxDone, notified, sigChans, sigpc, errChan,
                   gpc, gErr, shutdowns, ret, delivered>>

\* StartStdio / StartHTTP up to the select: signal.Notify on the transport's
\* channel, make(chan error, 1), go func() { serve }
TransportStart ==
    /\ mpc \in {"stdio.start", "http.start"}
    /\ mpc' = IF mpc = "stdio.start" THEN "stdio.select" ELSE "http.select"
    /\ notified' = notified \cup {"transport"}
    /\ errChan' = <<>>
    /\ gpc' = "serving"
    /\ NoCallStep
    /\ UNCHANGED <<tools, names, phase, cfg, conf, ctxDone, sigChans, sigpc, gErr,
                   shutdowns, ret, delivered>>

\* the serving goroutine: ServeStdio / ListenAndServe returns, and the
\* goroutine either ends or goes on to errChan <- err
ServeReturns ==
    /\ Running
    /\ gpc = "serving"
    /\ \E e \in ServeOutcomes(conf.cfg.MCPTransport, shutdowns) :
        /\ gErr' = e
        /\ gpc' = IF sendsError(conf.cfg.MCPTransport, e) THEN "send" ELSE "done"
    /\ NoCallStep
    /\ UNCHANGED <<tools, names, phase, cfg, conf, mpc, ctxDone, notified, sigChans, sigpc,
                   errChan, shutdowns, ret, delivered>>

\* errChan <- err: possible while the buffer has room
GoSend ==
    /\ Running
    /\ gpc = "send"
    /\ Len(errChan) < ErrChanCap
    /\ errChan' = Append(errChan, gErr)
    /\ gpc' = "done"
    /\ NoCallStep
    /\ UNCHANGED <<tools, names, phase, cfg, conf, mpc, ctxDone, notified, sigChans, sigpc,
                   gErr, shutdowns, ret, delivered>>

\* SIGINT or SIGTERM reaches the process: it ends a process that registered
\* no channel, and otherwise goes to the registered channels
Signal ==
    /\ Running
    /\ delivered < MaxSignals
    /\ delivered' = delivered + 1
    /\ mpc' = IF notified = {} THEN "killed" ELSE mpc
    /\ sigChans' = deliver(sigChans, notified)
    /\ NoCallStep
    /\ UNCHANGED <<tools, names, phase, cfg, conf, ctxDone, notified, sigpc, errChan, gpc,
                   gErr, shutdowns, ret>>

\* main's signal goroutine: sig := <-sigChan; cancel()
SigGoroutine ==
    /\ Running
    /\ sigpc = "recv"
    /\ sigChans["main"] # <<>>
    /\ sigChans' = [sigChans EXCEPT !["main"] = Tail(@)]
    /\ ctxDone' = TRUE
    /\ sigpc' = "done"
    /\ NoCallStep
    /\ UNCHANGED <<tools, names, phase, cfg, conf, mpc, notified, errChan, gpc, gErr,
                   shutdowns, ret, delivered>>

\* the cases of the select that can proceed
Ready ==
    (IF ctxDone THEN {"ctx"} ELSE {})
    \cup (IF sigChans["transport"] # <<>> THEN {"sig"} ELSE {})
    \cup (IF errChan # <<>> THEN {"err"} ELSE {})

\* what a case of the select takes from its channel
take(branch) ==
    /\ sigChans' = IF branch = "sig" THEN [sigChans EXCEPT !["transport"] = Tail(@)]
                   ELSE sigChans
    /\ errChan' = IF branch = "err" THEN Tail(errChan) ELSE errChan

\* StartStdio's select: one of the ready cases, any of them
SelectStdio ==
    /\ mpc = "stdio.select"
    /\ \E branch \in Ready :
        /\ take(branch)
        /\ ret' = IF branch = "err"
                  THEN Wrap("stdio server error", ServeError(Head(errChan)))
                  ELSE NoError
    /\ mpc' = "returned"
    /\ NoCallStep
    /\ UNCHANGED <<tools, names, phase, cfg, conf, ctxDone, notified, sigpc, gpc, gErr,
                   shutdowns, delivered>>

\* StartHTTP's select: the error case returns, the others go on to Shutdown
SelectHTTP ==
    /\ mpc = "http.select"
    /\ \E branch \in Ready :
        /\ take(branch)
        /\ ret' = IF branch = "err"
                  THEN Wrap("HTTP server error", ServeError(Head(errChan)))
                  ELSE ret
        /\ mpc' = IF branch = "err" THEN "returned" ELSE "http.shutdown"
    /\ NoCallStep
    /\ UNCHANGED <<tools, names, phase, cfg, conf, ctxDone, notified, sigpc, gpc, gErr,
                   shutdowns, delivered>>

\* ListenAndServe takes a request through authMiddleware and the mux, until
\* Shutdown is called
ServeRequest ==
    /\ Running
    /\ phase = "http"
    /\ gpc = "serving"
    /\ shutdowns = <<>>
    /\ pc = "idle"
    /\ \E req \in ProcRequests :
        \E w \in {authMiddleware(cfg, req)} :
            /\ http' = w
            /\ pc' = IF w.inner = "mcp" THEN "mcp" ELSE "served"
    /\ UNCHANGED <<tools, phase, cfg, names, tool, args, resp, invoked, hResult, hErr, sent,
                   result, err, regTool, passed, reply>>
    /\ UNCHANGED <<procVars, other>>

\* the transport hands a tools/call to the handler wrapper: ServeStdio while
\* it runs, the HTTP server inside a POST the gate let through
ServeCall ==
    /\ Running
    /\ \/ phase = "stdio" /\ gpc = "serving" /\ pc = "idle"
       \/ phase = "http" /\ pc = "mcp"
    /\ \E toolName \in ProcTools :
        \E a \in CallArgs(toolName) \cup {NilArguments} :
            Execute(toolName, wrapperArgs(a), ProcAnswers)

\* the backing API answers the call while the process runs
AnswerCall == Running /\ Answered(ProcAnswers)

\* the call returns to the transport while the process runs
ReturnCall == Running /\ Return

\* a variant that calls Shutdown a second time after the first
ShutdownCall_Twice ==
    /\ mpc = "http.shutdown"
    /\ shutdowns' = shutdowns \o <<ShutdownTimeout, ShutdownTimeout>>
    /\ mpc' = "http.shutting"
    /\ NoCallStep
    /\ UNCHANGED <<tools, names, phase, cfg, conf, ctxDone, notified, sigChans, sigpc,
                   errChan, gpc, gErr, ret, delivered>>

\* StartHTTP: httpServer.Shutdown(shutdownCtx) is called under the
\* ShutdownTimeout deadline; the listener closes and the call waits for the
\* open connections
ShutdownCall ==
    /\ mpc = "http.shutdown"
    /\ shutdowns' = Append(shutdowns, ShutdownTimeout)
    /\ mpc' = "http.shutting"
    /\ NoCallStep
    /\ UNCHANGED <<tools, names, phase, cfg, conf, ctxDone, notified, sigChans, sigpc,
                   errChan, gpc, gErr, ret, delivered>>

\* Shutdown returns: nil or the error of closing the listener once no
\* connection serves a request, the deadline's error when the deadline passes
ShutdownReturn ==
    /\ mpc = "http.shutting"
    /\ \E e \in {NoError} \cup ShutdownErrors :
        /\ e # DeadlineExceeded => pc = "idle"
        /\ ret' = IF e = NoError THEN NoError ELSE Wrap("shutdown error", e)
    /\ mpc' = "returned"
    /\ NoCallStep
    /\ UNCHANGED <<tools, names, phase, cfg, conf, ctxDone, notified, sigChans, sigpc,
                   errChan, gpc, gErr, shutdowns, delivered>>

\* main after the transport returned: os.Exit(1) on an error, else main
\* returns and its deferred cancel runs
MainReturn ==
    /\ mpc = "returned"
    /\ mpc' = IF ret # NoError THEN "exit.server" ELSE "done"
    /\ ctxDone' = IF ret # NoError THEN ctxDone ELSE TRUE
    /\ NoCallStep
    /\ UNCHANGED <<tools, names, phase, cfg, conf, notified, sigChans, sigpc, errChan, gpc,
                   gErr, shutdowns, ret, delivered>>

\* the steps of the main goroutine
MainStep ==
    \/ LoadConfig \/ ProcNew \/ MainNotify \/ Switch \/ TransportStart
    \/ SelectStdio \/ SelectHTTP \/ ShutdownCall \/ ShutdownReturn \/ MainReturn

MainNext ==
    \/ LoadConfig \/ ProcNew \/ MainNotify \/ Switch \/ TransportStart
    \/ ServeReturns \/ GoSend \/ Signal \/ SigGoroutine
    \/ ServeRequest \/ ServeCall \/ AnswerCall \/ ReturnCall
    \/ SelectStdio \/ SelectHTTP \/ ShutdownCall \/ ShutdownReturn \/ MainReturn

SpecMain == MainInit /\ [][MainNext]_vars

\* the Go scheduler runs every goroutine that can take a step
SpecMainLive ==
    SpecMain /\ WF_vars(MainStep) /\ WF_vars(SigGoroutine) /\ WF_vars(GoSend)

TypeOK ==
    /\ pc \in {"idle", "executed", "direct", "registered", "HasTool", "GetToolInfo",
              "ListTools", "GetToolCount", "client", "served", "mcp"} \cup Waiting
    /\ phase \in {"start", "created", "stdio", "http", "package"}
    /\ cfg \in Configs
    /\ Len(passed) <= 1
    /\ Len(sent) <= 1
    /\ Len(invoked) <= 1

\* the types of the process variables
ProcTypeOK ==
    /\ mpc \in {"none", "load", "new", "notify", "switch", "stdio.start", "http.start",
               "stdio.select", "http.select", "http.shutdown", "http.shutting", "returned",
               "done", "exit.config", "exit.transport", "exit.server", "killed"}
    /\ sigpc \in {"none", "recv", "done"}
    /\ gpc \in {"none", "serving", "send", "done"}
    /\ gErr \in {"nil", "other", "ErrServerClosed"}
    /\ ctxDone \in BOOLEAN
    /\ notified \subseteq {"main", "transport"}
    /\ delivered \in 0..MaxSignals
    /\ \A c \in DOMAIN sigChans : Len(sigChans[c]) <= SigChanCap
    /\ Len(errChan) <= ErrChanCap

-----------------------------------------------------------------------------
(* Vocabulary of the properties *)

GetHandlers ==
    {"handleGetDocument", "handleGetCorrespondent", "handleGetDocumentType",
     "handleGetTag", "handleGetStoragePath", "handleGetCustomField"}
UpdateHandlers ==
    {"handleUpdateDocument", "handleUpdateCorrespondent", "handleUpdateDocumentType",
     "handleUpdateTag", "handleUpdateStoragePath", "handleUpdateCustomField"}
DeleteHandlers ==
    {"handleDeleteDocument", "handleDeleteCorrespondent", "handleDeleteDocumentType",
     "handleDeleteTag", "handleDeleteStoragePath", "handleDeleteCustomField"}
CreateHandlers ==
    {"handleCreateDocument", "handleCreateCorrespondent", "handleCreateDocumentType",
     "handleCreateTag", "handleCreateStoragePath", "handleCreateCustomField"}
ListHandlers ==
    {"handleListCorrespondents", "handleListDocumentTypes", "handleListTags",
     "handleListStoragePaths", "handleListCustomFields",
     "handleSearchDocuments", "handleFindSimilarDocuments"}
\* the handlers that take the ID of one resource
IdHandlers ==
    GetHandlers \cup UpdateHandlers \cup DeleteHandlers
    \cup {"handleGetDocumentContent", "handleFindSimilarDocuments"}

\* the name of the ID argument of a handler
IdKey(h) ==
    CASE h \in {"handleGetDocument", "handleUpdateDocument", "handleDeleteDocument",
                "handleGetDocumentContent", "handleFindSimilarDocuments"} -> "document_id"
      [] h \in {"handleGetCorrespondent", "handleUpdateCorrespondent",
                "handleDeleteCorrespondent"} -> "correspondent_id"
      [] h \in {"handleGetDocumentType", "handleUpdateDocumentType",
                "handleDeleteDocumentType"} -> "document_type_id"
      [] h \in {"handleGetTag", "handleUpdateTag", "handleDeleteTag"} -> "tag_id"
      [] h \in {"handleGetStoragePath", "handleUpdateStoragePath",
                "handleDeleteStoragePath"} -> "storage_path_id"
      [] h \in {"handleGetCustomField", "handleUpdateCustomField",
                "handleDeleteCustomField"} -> "field_id"

\* the required string arguments of a handler
RequiredStrings(h) ==
    CASE h = "handleSearchDocuments" -> {"query"}
      [] h = "handleCreateDocument" -> {"title"}
      [] h \in {"handleCreateCorrespondent", "handleCreateDocumentType"} -> {"name"}
      [] h = "handleCreateTag" -> {"name", "color"}
      [] h = "handleCreateStoragePath" -> {"name", "path"}
      [] h = "handleCreateCustomField" -> {"name", "data_type"}
      [] OTHER -> {}

\* errors.Unwrap: what an error wraps, nil for an error that wraps nothing
Cause(e) == IF e = <<>> THEN <<>> ELSE Tail(e)

\* a handler ran during the last call and returned
Ran(hs) == pc \notin {"idle"} \cup Waiting /\ Len(invoked) = 1 /\ invoked[1] \in hs
TheHandler == invoked[1]

\* an error the handler made itself, wrapping no cause, with one of the texts
IsValidation(e, texts) == Len(e) = 1 /\ e[1].t = "errorf" /\ e[1].msg \in texts

IdRequiredTexts ==
    {"document_id parameter is required and must be an integer",
     "correspondent_id parameter is required and must be an integer",
     "document_type_id parameter is required and must be an integer",
     "tag_id is required and must be an integer",
     "storage_path_id parameter is required and must be an integer",
     "field_id parameter is required and must be an integer"}
IdPositiveTexts ==
    {"document_id must be a positive integer",
     "correspondent_id must be a positive integer",
     "document_type_id must be a positive integer",
     "tag_id must be a positive integer",
     "storage_path_id must be a positive integer",
     "field_id must be a positive integer"}
NoFieldTexts ==
    {"at least one field to update must be provided",
     "at least one field must be provided for update"}
StringRequiredTexts ==
    {"query parameter is required and must be a non-empty string",
     "title parameter is required and must be a non-empty string",
     "name parameter is required and must be a non-empty string",
     "name is required and must be a non-empty string",
     "color is required and must be a non-empty string",
     "path parameter is required and must be a non-empty string",
     "data_type parameter is required and must be a non-empty string"}

\* the ID argument is a number that converts to an integer of at least 1
ValidId(h) == IsFloat(args, IdKey(h)) /\ IntOf(args[IdKey(h)].v) >= 1

-----------------------------------------------------------------------------
(* C1: ExecuteTool with a name that has no registration returns the         *)
(* "tool not found" error and a nil result, invokes no handler and sends no *)
(* request to the backing API, whatever the argument bag.                   *)
C1_UnknownToolNotFound ==
    (pc = "executed" /\ tool \notin DOMAIN tools) =>
        /\ err = ErrorfS(ErrToolNotFound, tool)
        /\ result = NilResult
        /\ invoked = <<>>
        /\ sent = <<>>

C1_Witness ==
    /\ pc = "executed"
    /\ tool = "nonexistent_tool"
    /\ args # EmptyBag
    /\ err = ErrorfS(ErrToolNotFound, "nonexistent_tool")

(* C2: in every Get-, Update- and Delete-shaped handler, and in             *)
(* get_document_content and find_similar_documents, an ID argument that is  *)
(* absent or not a number gives a validation error and no request is sent.  *)
C2_BadIdFailsFast ==
    (Ran(IdHandlers) /\ ~IsFloat(args, IdKey(TheHandler))) =>
        /\ IsValidation(hErr, IdRequiredTexts)
        /\ hResult = NilResult
        /\ sent = <<>>

C2_Witness ==
    /\ Ran({"handleDeleteTag"})
    /\ Has(args, "tag_id")
    /\ args["tag_id"].t = "str"
    /\ IsValidation(hErr, IdRequiredTexts)

(* C3: in every Get-, Update- and Delete-shaped handler, tags included, a   *)
(* numeric ID that converts to an integer below 1 is rejected with a        *)
(* validation error before any request is sent.                             *)
C3_NonPositiveIdRejected ==
    (Ran(GetHandlers \cup UpdateHandlers \cup DeleteHandlers)
        /\ IsFloat(args, IdKey(TheHandler))
        /\ IntOf(args[IdKey(TheHandler)].v) < 1) =>
        /\ IsValidation(hErr, IdPositiveTexts)
        /\ sent = <<>>

(* C4: the body a Create-shaped handler posts never holds a key the caller  *)
(* did not supply; with only the required fields supplied it holds exactly  *)
(* those fields.                                                            *)
C4_CreateBodyOnlySupplied ==
    (Ran(CreateHandlers) /\ sent # <<>>) =>
        /\ sent[1].method = "POST"
        /\ DOMAIN sent[1].body \subseteq DOMAIN args
        /\ (DOMAIN args = RequiredStrings(TheHandler) =>
                DOMAIN sent[1].body = RequiredStrings(TheHandler))

(* C5: the partial-update payload of every Update-shaped handler, update_tag *)
(* and update_custom_field included, is the argument bag without the ID key: *)
(* no key added or dropped, every value unchanged.                           *)
C5_UpdateForwardsVerbatim ==
    (Ran(UpdateHandlers) /\ sent # <<>>) =>
        /\ sent[1].method = "PATCH"
        /\ sent[1].body = Without(args, IdKey(TheHandler))

\* the handler's error is the client's "failed to create request" error,
\* wrapped once by the handler
CannotBuild(e) == Len(e) >= 2 /\ Cause(e) = newRequest /\ newRequest # NoError

(* C6 as stated: an Update-shaped handler called with a valid ID and no     *)
(* other key fails with the "at least one field" validation error and sends *)
(* nothing; called with a valid ID and name "X" it sends exactly one        *)
(* partial update whose payload is exactly {name: "X"}.                     *)
C6_Original ==
    (Ran(UpdateHandlers) /\ ValidId(TheHandler)) =>
        /\ (DOMAIN args = {IdKey(TheHandler)} =>
                /\ IsValidation(hErr, NoFieldTexts)
                /\ hResult = NilResult
                /\ sent = <<>>)
        /\ (Without(args, IdKey(TheHandler)) = [name |-> Str("X")] =>
                /\ Len(sent) = 1
                /\ sent[1].method = "PATCH"
                /\ sent[1].path.kind = "item"
                /\ sent[1].path.id = IntOf(args[IdKey(TheHandler)].v)
                /\ sent[1].body = [name |-> Str("X")])

(* C6: an Update-shaped handler called with a valid ID and no other key     *)
(* fails with the "at least one field" validation error and sends nothing;  *)
(* called with a valid ID and name "X" it sends exactly one partial update  *)
(* whose payload is exactly {name: "X"} when the client's base URL parses,  *)
(* and otherwise sends nothing and returns the client's "failed to create   *)
(* request" error.                                                          *)
C6_UpdateNeedsAField ==
    (Ran(UpdateHandlers) /\ ValidId(TheHandler)) =>
        /\ (DOMAIN args = {IdKey(TheHandler)} =>
                /\ IsValidation(hErr, NoFieldTexts)
                /\ hResult = NilResult
                /\ sent = <<>>)
        /\ (Without(args, IdKey(TheHandler)) = [name |-> Str("X")] =>
                IF ParsesURL(baseURL)
                THEN /\ Len(sent) = 1
                     /\ sent[1].method = "PATCH"
                     /\ sent[1].path.kind = "item"
                     /\ sent[1].path.id = IntOf(args[IdKey(TheHandler)].v)
                     /\ sent[1].body = [name |-> Str("X")]
                ELSE /\ sent = <<>>
                     /\ CannotBuild(hErr)
                     /\ hResult = NilResult)

C6_Witness ==
    /\ Ran({"handleUpdateCorrespondent"})
    /\ args = [correspondent_id |-> Num(2), name |-> Str("X")]
    /\ Len(sent) = 1
    /\ sent[1].body = [name |-> Str("X")]

\* the page and page size the List contract asks for
ContractPage(a) ==
    IF IsFloat(a, "page") /\ IntOf(a["page"].v) >= 1 THEN IntOf(a["page"].v) ELSE 1
ContractPageSize(a) ==
    IF ~IsFloat(a, "page_size") \/ IntOf(a["page_size"].v) < 1 THEN 25
    ELSE IF IntOf(a["page_size"].v) > 100 THEN 100 ELSE IntOf(a["page_size"].v)

(* C7: the successful result of every List-shaped handler carries page and  *)
(* page_size: page 1 when absent or below 1, page_size 25 when absent, zero *)
(* or negative, 100 when above 100, the supplied value otherwise.           *)
C7_ListResultPaging ==
    (Ran(ListHandlers) /\ hErr = NoError) =>
        /\ {"page", "page_size"} \subseteq DOMAIN hResult
        /\ hResult.page = ContractPage(args)
        /\ hResult.page_size = ContractPageSize(args)

(* C8: the successful result of every List-shaped handler has has_next true *)
(* exactly when the envelope's next cursor is non-null and has_prev true    *)
(* exactly when its previous cursor is non-null.                            *)
C8_ListResultCursors ==
    (Ran(ListHandlers) /\ hErr = NoError) =>
        /\ {"has_next", "has_prev"} \subseteq DOMAIN hResult
        /\ hResult.has_next = (resp.next # Null)
        /\ hResult.has_prev = (resp.previous # Null)

(* C9: a successful Delete-shaped handler returns three fields, success     *)
(* true, the ID field equal to the requested ID, and a message, and only    *)
(* after the backing API accepted the delete.                               *)
C9_DeleteResultShape ==
    (Ran(DeleteHandlers) /\ hErr = NoError) =>
        /\ DOMAIN hResult = {"success", IdKey(TheHandler), "message"}
        /\ hResult.success = TRUE
        /\ hResult[IdKey(TheHandler)] = IntOf(args[IdKey(TheHandler)].v)
        /\ Len(sent) = 1
        /\ sent[1].method = "DELETE"
        /\ resp.net
        /\ resp.status \in {200, 204}

(* C10: a required string argument that is absent, not a string or empty    *)
(* makes the handler return a validation error with no request sent.        *)
C10_RequiredStringFailsFast ==
    (Ran(AllHandlers)
        /\ \E k \in RequiredStrings(TheHandler) : ~IsString(args, k) \/ args[k].v = "") =>
        /\ IsValidation(hErr, StringRequiredTexts)
        /\ hResult = NilResult
        /\ sent = <<>>

C10_Witness ==
    /\ Ran({"handleCreateTag"})
    /\ IsString(args, "name") /\ args["name"].v = "X"
    /\ Has(args, "color") /\ args["color"] = Str("")
    /\ IsValidation(hErr, {"color is required and must be a non-empty string"})
    /\ sent = <<>>

-----------------------------------------------------------------------------
(* Vocabulary of the dispatcher, registry and transport properties *)

\* ExecuteTool ran and found the tool
Dispatched == pc = "executed" /\ tool \in DOMAIN tools

\* the status codes a client verb takes for success
Accepted(method, status) ==
    IF method = "DELETE" THEN status \in {200, 204} ELSE status >= 200 /\ status < 300

\* the call's request got an answer the verb could take in: the round trip
\* succeeded and, except for DELETE, the body was read to its end
Received ==
    sent # <<>> /\ resp.net /\ (sent[1].method = "DELETE" \/ resp.read)

\* a JSON value has the type a schema property declares
HasType(v, ty) ==
    CASE ty = "string" -> v.t = "str"
      [] ty = "integer" -> v.t = "num" /\ v.v % 2 = 0
      [] ty = "boolean" -> v.t = "bool"
      [] ty = "array" -> v.t = "arr"
\* a bag satisfies an InputSchema
Conforms(a, schema) ==
    /\ schema.required \subseteq DOMAIN a
    /\ \A k \in DOMAIN a \cap DOMAIN schema.properties :
          HasType(a[k], schema.properties[k])

\* the tool names of the README's "Available MCP Tools"
ReadmeTools ==
    {"search_documents", "find_similar_documents", "get_document", "get_document_content",
     "create_document", "update_document", "delete_document", "bulk_edit_documents",
     "list_correspondents", "get_correspondent", "create_correspondent",
     "update_correspondent", "delete_correspondent",
     "list_document_types", "get_document_type", "create_document_type",
     "update_document_type", "delete_document_type",
     "list_tags", "get_tag", "create_tag", "update_tag", "delete_tag",
     "list_storage_paths", "get_storage_path", "create_storage_path",
     "update_storage_path", "delete_storage_path",
     "list_custom_fields", "get_custom_field", "create_custom_field",
     "update_custom_field", "delete_custom_field",
     "ping", "server_info"}

\* the handlers whose client method decodes the response body
DecodingHandlers ==
    GetHandlers \cup UpdateHandlers \cup CreateHandlers \cup ListHandlers
        \cup {"handleGetDocumentContent"}

\* the Authorization header the gate accepts
ExpectedAuth == "Bearer " \o cfg.MCPAuthToken
\* the request of the exchange in progress
TheRequest == [path |-> http.path, method |-> http.method, auth |-> http.auth]

(* C11: when the handler of a registered tool returns an error, ExecuteTool *)
(* returns a nil result and the "tool execution failed" error wrapping the  *)
(* handler's error; a backing API error with its status code sits one wrap  *)
(* below the handler's own error and is reached by unwrapping.              *)
C11_HandlerErrorWrapped ==
    (Dispatched /\ hErr # NoError) =>
        /\ result = NilResult
        /\ Head(err).msg = ErrToolExecFailed
        /\ Tail(err) = hErr
        /\ ((Received /\ ~Accepted(sent[1].method, resp.status)) =>
                /\ Len(hErr) = 2
                /\ err[3].t = "api"
                /\ err[3].status = resp.status)

C11_Witness ==
    /\ Dispatched
    /\ tool = "get_document"
    /\ Received /\ resp.status = 404
    /\ Len(err) = 3
    /\ err[1].msg = ErrToolExecFailed
    /\ err[3].t = "api" /\ err[3].status = 404

(* C12: for a registered tool ExecuteTool calls that tool's handler exactly *)
(* once with the argument bag it was given, whether or not the bag fits the *)
(* tool's input schema, and on handler success returns the handler's result *)
(* and a nil error.                                                         *)
C12_HandlerCalledOnceUnchanged ==
    Dispatched =>
        /\ invoked = <<tools[tool].Handler>>
        /\ passed = <<args>>
        /\ (hErr = NoError => result = hResult /\ err = NoError)

C12_Witness ==
    /\ Dispatched
    /\ tool = "list_correspondents"
    /\ ~Conforms(args, tools[tool].InputSchema)
    /\ invoked = <<"handleListCorrespondents">>
    /\ passed = <<args>>
    /\ hErr = NoError
    /\ result = hResult /\ result # NilResult

(* C13: RegisterTool never returns an error; after it, GetToolInfo, HasTool *)
(* and ExecuteTool resolve the name to the tool just registered; ListTools  *)
(* holds every registered name exactly once and is as long as GetToolCount, *)
(* the number of distinct names registered.                                 *)
C13_RegistryLastWriteWins ==
    /\ (pc = "registered" =>
            /\ err = NoError
            /\ HasTool(tools, tool)
            /\ GetToolInfo(tools, tool) = [tool |-> regTool, exists |-> TRUE]
            /\ ExecuteTool(tools, tool, EmptyBag, resp).invoked = <<regTool.Handler>>)
    /\ (pc = "ListTools" =>
            /\ \A n \in names :
                  /\ Cardinality({t \in DOMAIN result.tools : t.Name = n}) = 1
                  /\ \A t \in DOMAIN result.tools : t.Name = n => result.tools[t] = 1
            /\ {t.Name : t \in DOMAIN result.tools} = names
            /\ SliceLen(result.tools) = GetToolCount(tools))
    /\ (pc = "GetToolCount" => result.count = Cardinality(names))

C13_Witness ==
    /\ pc = "registered"
    /\ regTool = Tool("ping", Schema(NoProperties, {}), "handleServerInfo")
    /\ "test_tool" \in names
    /\ tools["ping"].Handler = "handleServerInfo"
    /\ GetToolCount(tools) = Len(Registrations) + 1

(* C14: after New has returned the name-to-handler mapping stays the one    *)
(* built at startup, in every state the Server's operations, RegisterTool   *)
(* included, can reach.                                                     *)
C14_HandlerImmutable ==
    phase # "start" =>
        [n \in DOMAIN tools |-> tools[n].Handler]
            = [n \in DOMAIN registerTools |-> registerTools[n].Handler]

(* C15: no call is dispatched and no transport runs before New has filled  *)
(* the registry: whenever a transport is serving or ExecuteTool has run,    *)
(* every registration of registerTools is in the registry, and before New   *)
(* no call is in progress.                                                  *)
C15_RegistryCompleteBeforeDispatch ==
    /\ (phase = "start" => pc = "idle" /\ DOMAIN tools = {})
    /\ (phase \in {"stdio", "http"} \/ pc \in {"executed", "mcp", "served"} =>
            \A i \in DOMAIN Registrations : HasTool(tools, Registrations[i].Name))
    /\ (phase \in {"stdio", "http"} =>
            \A i \in DOMAIN Registrations : tools[Registrations[i].Name] = Registrations[i])

C15_Witness ==
    /\ phase = "http"
    /\ pc = "executed"
    /\ tool = "bulk_edit_documents"
    /\ invoked = <<"handleBulkEditDocuments">>

(* C16: with a token configured, a request for any path but the health      *)
(* endpoint whose Authorization header is not exactly "Bearer <token>" gets *)
(* 401 and reaches no inner handler, so no dispatch; with the exact header, *)
(* or with no token configured, the request goes to the inner handler.      *)
C16_AuthGate ==
    /\ (phase = "http" /\ pc \in {"served", "mcp"} =>
            IF cfg.MCPAuthToken # "" /\ http.path # HealthEndpoint
                  /\ http.auth # ExpectedAuth
            THEN http.status = 401 /\ http.inner = "none" /\ pc = "served"
            ELSE http = mux(TheRequest) /\ http.inner # "none")
    /\ (phase = "http" /\ pc \in {"pending", "executed"} =>
            /\ http.inner = "mcp"
            /\ (cfg.MCPAuthToken # "" => http.auth = ExpectedAuth))
    /\ (other.http # NoRequest => phase = "http")
    /\ (phase = "http" /\ other.pc # "idle" =>
            /\ other.http # NoRequest
            /\ (cfg.MCPAuthToken # "" /\ other.http.path # HealthEndpoint
                    /\ other.http.auth # ExpectedAuth =>
                    other.http.status = 401 /\ other.http.inner = "none"
                    /\ other.pc = "served")
            /\ (other.pc \in {"mcp", "pending", "executed"} => other.http.inner = "mcp"))

C16_Witness ==
    /\ phase = "http"
    /\ pc = "served"
    /\ cfg.MCPAuthToken = AuthToken
    /\ http.path = StreamableHTTPEndpoint
    /\ http.auth = "Bearer wrong"
    /\ http.status = 401

(* C17: a GET of /health is answered 200 with the body {status: ok, server, *)
(* version} with or without a configured token and whatever the             *)
(* Authorization header; any other method on /health is answered 405; and   *)
(* serving /health invokes no handler, sends nothing to the backing API and *)
(* is never handed to the dispatcher.                                       *)
C17_HealthExempt ==
    /\ [](phase = "http" /\ pc # "idle" /\ http.path = HealthEndpoint =>
            /\ pc = "served"
            /\ http.inner = "health"
            /\ (http.method = "GET" => http.status = 200 /\ http.body = HealthBody)
            /\ (http.method # "GET" => http.status = 405)
            /\ invoked = <<>>
            /\ sent = <<>>)
    /\ [](other.pc # "idle" /\ other.http.path = HealthEndpoint =>
            /\ other.pc = "served"
            /\ other.http.inner = "health"
            /\ other.http.status = 200 /\ other.http.body = HealthBody
            /\ other.tool = ""
            /\ other.sent = <<>>)
    /\ [][pc = "served" => pc' = "idle" /\ invoked' = <<>> /\ sent' = <<>>]_vars
    /\ [][other.pc = "served" /\ other' # other => other' = NoExchange]_vars

C17_Witness ==
    /\ phase = "http"
    /\ pc = "served"
    /\ cfg.MCPAuthToken = AuthToken
    /\ http.path = HealthEndpoint
    /\ http.method = "GET"
    /\ http.auth = ""
    /\ http.status = 200
    /\ http.body = HealthBody

(* C18: after New has returned every tool name of the README's "Available   *)
(* MCP Tools" is registered, and every registered tool has an input schema  *)
(* and a handler.                                                           *)
C18_ReadmeToolsRegistered ==
    phase # "start" =>
        /\ ReadmeTools \subseteq DOMAIN tools
        /\ \A n \in DOMAIN tools :
              tools[n].InputSchema # NilSchema /\ tools[n].Handler # NilHandler

(* C19: a handler sends at most one request to the backing API, and when    *)
(* that request fails (no round trip, a status outside the success range,   *)
(* or a body that does not decode) the handler returns an error and a nil   *)
(* result with that one request sent.                                       *)
C19_NoRetry ==
    (pc \in {"pending", "direct.pending", "executed", "direct"} /\ Len(invoked) = 1) =>
        /\ Len(sent) <= 1
        /\ Len(other.sent) <= 1
        /\ ((pc \notin Waiting /\ sent # <<>> /\ (\/ ~Received
                              \/ ~Accepted(sent[1].method, resp.status)
                              \/ (invoked[1] \in DecodingHandlers /\ ~resp.json)
                              \/ (invoked[1] \in ListHandlers /\ ~resp.results))) =>
                /\ hErr # NoError
                /\ hResult = NilResult
                /\ Len(sent) = 1)

C19_Witness ==
    /\ Dispatched
    /\ invoked = <<"handleGetDocumentContent">>
    /\ ~resp.net
    /\ Len(sent) = 1
    /\ hErr # NoError
    /\ hResult = NilResult

(* C20: whatever error ExecuteTool returns (unknown tool, validation,       *)
(* backing API, decoding), the handler wrapper returns an error-flagged     *)
(* tool result and a nil protocol error; a call leaves the registry, the    *)
(* configuration and the serving transport as they were, and once it has    *)
(* returned the transport takes the next call.                              *)
C20_FailedCallNotFatal ==
    /\ [](pc = "executed" =>
            /\ reply.err = NoError
            /\ (err # NoError => reply.isError /\ reply.text = err)
            /\ (err = NoError => ~reply.isError /\ reply.structured = result))
    /\ [](other.pc = "executed" =>
            /\ other.reply.err = NoError
            /\ (other.err # NoError => other.reply.isError /\ other.reply.text = other.err))
    /\ [][(pc \in {"pending", "executed"} \/ pc' \in {"pending", "executed"}
              \/ other' # other) =>
            (tools' = tools /\ phase' = phase /\ cfg' = cfg)]_vars
    /\ [](pc = "idle" /\ other = NoExchange =>
            /\ (phase = "stdio" => ENABLED ExecuteRegistered)
            /\ (phase = "http" => ENABLED ServeHTTP))
    /\ [](pc = "pending" => ENABLED ExecuteReturn)

C20_Witness ==
    /\ phase = "stdio"
    /\ pc = "executed"
    /\ Received /\ resp.status = 500
    /\ Len(err) = 3
    /\ reply.isError
    /\ reply.err = NoError

-----------------------------------------------------------------------------
(* The client's errors *)

(* C21: GET, POST, PUT and PATCH turn a response whose status is outside    *)
(* 200..299 into an API error with that status; on any error value          *)
(* IsNotFound holds exactly for an API error with status 404, and           *)
(* IsUnauthorized exactly for one with 401 or 403, never both, and both are *)
(* false for an error that is no API error.                                 *)
C21_TypedApiError ==
    /\ (pc = "client" /\ Received /\ sent[1].method # "DELETE"
            /\ (resp.status < 200 \/ resp.status > 299) =>
            /\ IsAPIError(hErr)
            /\ Len(hErr) = 1
            /\ hErr[1].status = resp.status
            /\ (IsNotFound(hErr) <=> resp.status = 404)
            /\ (IsUnauthorized(hErr) <=> resp.status \in {401, 403}))
    /\ \A e \in {hErr, err, Cause(hErr)} :
            /\ ~(IsNotFound(e) /\ IsUnauthorized(e))
            /\ (IsNotFound(e) <=> IsAPIError(e) /\ e[1].status = 404)
            /\ (IsUnauthorized(e) <=> IsAPIError(e) /\ e[1].status \in {401, 403})

C21_Witness ==
    /\ pc = "client"
    /\ Received
    /\ sent[1].method = "PUT"
    /\ resp.status = 403
    /\ hErr = NewError(403)
    /\ IsUnauthorized(hErr)
    /\ ~IsNotFound(hErr)

(* C27: the error a handler returns and the error ExecuteTool returns for a *)
(* backing API 404, 401 or 403 hold the API error one level (two levels)    *)
(* down, and IsNotFound and IsUnauthorized are false of both, although they *)
(* are true of the API error itself.                                        *)
C27_PredicatesDoNotUnwrap ==
    (pc \in {"executed", "direct"} /\ Len(invoked) = 1 /\ Received
        /\ resp.status \in {401, 403, 404}) =>
        /\ Cause(hErr) = NewError(resp.status)
        /\ (IsNotFound(Cause(hErr)) <=> resp.status = 404)
        /\ (IsUnauthorized(Cause(hErr)) <=> resp.status # 404)
        /\ ~IsNotFound(hErr)
        /\ ~IsUnauthorized(hErr)
        /\ (pc = "executed" =>
              /\ Cause(Cause(err)) = NewError(resp.status)
              /\ ~IsNotFound(err)
              /\ ~IsUnauthorized(err))

C27_Witness ==
    /\ Dispatched
    /\ invoked = <<"handleGetCorrespondent">>
    /\ Received
    /\ resp.status = 404
    /\ IsNotFound(Cause(Cause(err)))
    /\ ~IsNotFound(hErr)
    /\ ~IsNotFound(err)

(* C28: DELETE succeeds exactly on status 200 or 204 and turns every other  *)
(* status, 202 included, into an API error with that status; GET, POST, PUT *)
(* and PATCH succeed on every status in 200..299; a Delete-shaped handler   *)
(* reports success only after a 200 or 204.                                 *)
C28_DeleteAccepts200And204 ==
    /\ (pc = "client" /\ Received =>
            IF sent[1].method = "DELETE"
            THEN /\ (hErr = NoError <=> resp.status \in {200, 204})
                 /\ (hErr # NoError => hErr = NewError(resp.status))
            ELSE (hErr = NoError <=> resp.status >= 200 /\ resp.status <= 299))
    /\ (Ran(DeleteHandlers) /\ hErr = NoError =>
            /\ Len(sent) = 1
            /\ sent[1].method = "DELETE"
            /\ resp.net
            /\ resp.status \in {200, 204})
    /\ (Ran(DeleteHandlers) /\ Received /\ resp.status \notin {200, 204} =>
            hErr # NoError /\ hResult = NilResult)

C28_Witness ==
    /\ pc = "client"
    /\ Received
    /\ sent[1].method = "DELETE"
    /\ resp.status = 202
    /\ hErr = NewError(202)


-----------------------------------------------------------------------------
(* bulk_edit_documents *)

\* document_ids is a non-empty array of positive integers
ValidDocumentIds(a) ==
    /\ "document_ids" \in DOMAIN a
    /\ a["document_ids"].t = "arr"
    /\ a["document_ids"].v # <<>>
    /\ \A i \in DOMAIN a["document_ids"].v :
          a["document_ids"].v[i].t = "num" /\ a["document_ids"].v[i].v >= 2

BulkEdited == pc = "executed" /\ invoked = <<"handleBulkEditDocuments">>

\* C23: bulk_edit_documents refuses, without a request, a document_ids that
\* is not a non-empty array of positive integers; a valid call issues exactly
\* one request, a POST of the bulk edit, that holds every ID and every
\* mutation given, never one request per document.
C23_BulkEditOneBatch ==
    BulkEdited =>
        IF ~ValidDocumentIds(args)
        THEN /\ sent = <<>>
             /\ hErr = Errorf("document_ids must be a non-empty array of positive integers")
        ELSE /\ Len(sent) = 1
             /\ sent[1].method = "POST"
             /\ sent[1].path.kind = "bulk_edit"
             /\ sent[1].body["documents"] = args["document_ids"]
             /\ \A k \in {"add_tags", "set_correspondent"} :
                   k \in DOMAIN args => k \in DOMAIN sent[1].body
                                        /\ sent[1].body[k] = args[k]

\* the three documents 1, 2, 3 get a tag in one request that succeeds
C23_Witness ==
    /\ BulkEdited
    /\ ValidDocumentIds(args)
    /\ args["document_ids"] = Arr(<<Num(2), Num(4), Num(6)>>)
    /\ "add_tags" \in DOMAIN args
    /\ Len(sent) = 1
    /\ sent[1].body["documents"].v = <<Num(2), Num(4), Num(6)>>
    /\ "add_tags" \in DOMAIN sent[1].body
    /\ hErr = NoError


-----------------------------------------------------------------------------
(* Optional arguments of an unexpected type *)

\* the optional arguments of a Create-shaped or paginated handler and the
\* JSON type each is declared with
OptionalType(h) ==
    CASE h \in ListHandlers -> [page |-> "num", page_size |-> "num"]
      [] h = "handleCreateDocument" ->
            [correspondent |-> "num", document_type |-> "num", storage_path |-> "num",
             tags |-> "arr"]
      [] h \in {"handleCreateCorrespondent", "handleCreateDocumentType",
                "handleCreateStoragePath"} ->
            [match |-> "str", matching_algorithm |-> "num", is_insensitive |-> "bool"]
      [] h = "handleCreateTag" ->
            [match |-> "str", matching_algorithm |-> "num", is_insensitive |-> "bool",
             is_inbox_tag |-> "bool"]
      [] OTHER -> EmptyBag

\* the optional arguments of the bag that have another type than declared
Mistyped(h, a) ==
    {k \in DOMAIN a \cap DOMAIN OptionalType(h) : a[k].t # OptionalType(h)[k]}

\* the sequence without its i-th element
Drop(seq, i) == [j \in 1..Len(seq) - 1 |-> IF j < i THEN seq[j] ELSE seq[j + 1]]

\* the positions of the tags array that hold something else than a number
MistypedTags(h, a) ==
    IF h = "handleCreateDocument" /\ IsArray(a, "tags")
    THEN {i \in DOMAIN a["tags"].v : a["tags"].v[i].t # "num"}
    ELSE {}

\* a Create-shaped or paginated handler ran, through the registry or directly
RanCreateOrList ==
    /\ pc \in {"executed", "direct"}
    /\ Len(invoked) = 1
    /\ invoked[1] \in CreateHandlers \cup ListHandlers

\* the call that ran has the outcome of the call with the bag b
SameAsWith(b) ==
    \E o \in {Call(invoked[1], b, resp)} :
        sent = o.sent /\ hErr = o.err /\ hResult = o.result

\* C25: in a Create-shaped or paginated handler an optional argument of
\* another type than expected, or an element of create_document's tags that is
\* not a number, is treated as absent: the requests, the error and the result
\* of the call are those of the call without that key or element.
C25_MistypedOptionalIsAbsent ==
    RanCreateOrList =>
        /\ \A k \in Mistyped(invoked[1], args) : SameAsWith(Without(args, k))
        /\ \A i \in MistypedTags(invoked[1], args) :
              SameAsWith([args EXCEPT !["tags"] = Arr(Drop(@.v, i))])

\* create_correspondent with a string for matching_algorithm posts the
\* correspondent and succeeds
C25_Witness ==
    /\ RanCreateOrList
    /\ invoked = <<"handleCreateCorrespondent">>
    /\ "matching_algorithm" \in Mistyped(invoked[1], args)
    /\ Len(sent) = 1
    /\ hErr = NoError


-----------------------------------------------------------------------------
(* Pagination on the wire *)

\* the requests that carry page and page_size
Paginated(req) == req.path.kind \in {"list", "search", "similar"}

\* C26: every paginated request sent to the backing API carries a page of at
\* least 1 and a page_size between 1 and 100, whatever tool issued it and
\* whatever the bag held.
C26_PaginationOnTheWire ==
    \A i \in DOMAIN sent :
        Paginated(sent[i]) =>
            /\ sent[i].path.page >= 1
            /\ sent[i].path.page_size >= 1
            /\ sent[i].path.page_size <= 100

\* list_tags called with page -1 and page_size 500 hands both to the client
\* as they are, and the request asks for page 1 with 100 items
C26_Witness ==
    /\ pc = "executed"
    /\ invoked = <<"handleListTags">>
    /\ IsFloat(args, "page") /\ args["page"].v = -2
    /\ IsFloat(args, "page_size") /\ args["page_size"].v = 1000
    /\ Len(sent) = 1
    /\ sent[1].path.page = 1
    /\ sent[1].path.page_size = 100


-----------------------------------------------------------------------------
(* Configuration and the choice of the transport *)

\* the value of an optional variable, or its default
OrDefault(v, d) == IF v = "" THEN d ELSE v

\* the environment is one the documentation accepts
ValidEnv(e) ==
    /\ TrimSpace(e["PAPERLESS_URL"]) # ""
    /\ TrimSpace(e["PAPERLESS_TOKEN"]) # ""
    /\ ToLower(OrDefault(e["LOG_LEVEL"], "info")) \in {"debug", "info", "warn", "error"}
    /\ ToLower(OrDefault(e["MCP_TRANSPORT"], "stdio")) \in {"stdio", "http"}

\* main is in or past one of the Start functions
Started == mpc \in {"stdio.select", "http.select", "http.shutdown", "http.shutting",
                    "returned", "done", "exit.server"}

\* C24: Load returns a configuration exactly for an environment with a
\* non-blank URL and token, a log level (any case, info when unset) among
\* debug, info, warn, error and a transport (any case, stdio when unset)
\* among stdio and http, with port 8080 when unset; main then starts the one
\* transport the environment names and never takes the invalid transport exit.
C24_LoadAndTransport ==
    /\ conf # NoConf => (conf.err = NoError <=> ValidEnv(env))
    /\ conf # NoConf /\ conf.err = NoError =>
          /\ conf.cfg.MCPHTTPPort = OrDefault(env["MCP_HTTP_PORT"], "8080")
          /\ conf.cfg.LogLevel = ToLower(OrDefault(env["LOG_LEVEL"], "info"))
    /\ conf # NoConf /\ conf.err # NoError => conf.cfg = NilConfig /\ mpc = "exit.config"
    /\ mpc # "exit.transport"
    /\ Started =>
          /\ phase = ToLower(OrDefault(env["MCP_TRANSPORT"], "stdio"))
          /\ phase = "stdio" => mpc \notin {"http.select", "http.shutdown", "http.shutting"}
          /\ phase = "http" => mpc # "stdio.select"

\* MCP_TRANSPORT=HTTP and LOG_LEVEL=Warn with no port: StartHTTP is running
C24_Witness ==
    /\ env["MCP_TRANSPORT"] = "HTTP"
    /\ env["LOG_LEVEL"] = "Warn"
    /\ env["MCP_HTTP_PORT"] = ""
    /\ mpc = "http.select"
    /\ conf.cfg.MCPHTTPPort = "8080"
    /\ conf.cfg.LogLevel = "warn"


-----------------------------------------------------------------------------
(* The error channel of the serving goroutine *)

\* C29: the serving goroutine sends on errChan at most once and never has
\* to wait: whenever it is about to send, the buffer of capacity 1 is empty,
\* whether or not the Start function is still in its select; what it sends
\* is never nil and, in HTTP mode, never http.ErrServerClosed.
C29_ErrChanSendNeverBlocks ==
    /\ gpc = "send" => Len(errChan) < ErrChanCap
    /\ Len(errChan) <= ErrChanCap
    /\ gpc \in {"none", "serving", "send"} => errChan = <<>>
    /\ \A i \in DOMAIN errChan :
          /\ errChan[i] # "nil"
          /\ phase = "http" => errChan[i] # "ErrServerClosed"
    /\ ret # NoError /\ phase = "http" =>
          ret \in {Wrap("HTTP server error", ServeError("other"))}
                  \cup {Wrap("shutdown error", e) : e \in ShutdownErrors}

\* the listener failed while StartHTTP was on its way from the select to
\* Shutdown: StartHTTP has returned, the error sits in the buffer unread, and
\* the goroutine has ended
C29_Witness ==
    /\ phase = "http"
    /\ mpc \in {"returned", "done", "exit.server"}
    /\ shutdowns # <<>>
    /\ gpc = "done"
    /\ errChan = <<"other">>


-----------------------------------------------------------------------------
(* Shutdown *)

\* the context was cancelled or a signal sits in a channel of the process
Triggered == ctxDone \/ sigChans["main"] # <<>> \/ sigChans["transport"] # <<>>

\* a trigger the select of the Start function can see
TriggerVisible == ctxDone \/ sigChans["transport"] # <<>>

\* StartHTTP from its select on: a trigger leads to one Shutdown under the
\* 10 second deadline and a return of nil or the shutdown error; a listener
\* error taken first is returned and Shutdown is not called
StartHTTPSteps ==
    /\ Len(shutdowns') <= 1
    /\ mpc = "http.select" /\ mpc' = "http.shutdown" =>
          TriggerVisible /\ shutdowns' = <<>> /\ ret' = NoError
    /\ mpc = "http.select" /\ mpc' = "returned" =>
          /\ errChan # <<>>
          /\ ret' = Wrap("HTTP server error", ServeError(Head(errChan)))
          /\ shutdowns' = <<>>
    /\ mpc = "http.shutdown" /\ mpc' # mpc =>
          /\ mpc' = "http.shutting"
          /\ shutdowns' = <<10>>
          /\ ret' = NoError
    /\ mpc = "http.shutting" /\ mpc' # mpc =>
          /\ mpc' = "returned"
          /\ shutdowns' = shutdowns
          /\ ret' \in {NoError} \cup {Wrap("shutdown error", e) : e \in ShutdownErrors}
    /\ shutdowns' # shutdowns => mpc = "http.shutdown"

\* StartStdio returns nil once a trigger is there
StartStdioReturnsNil ==
    mpc = "stdio.select" /\ mpc' = "returned" /\ TriggerVisible => ret' = NoError

\* StartStdio returns nil unless it takes a server error from errChan
StartStdioSteps ==
    mpc = "stdio.select" /\ mpc' = "returned" =>
        \/ TriggerVisible /\ ret' = NoError /\ errChan' = errChan
        \/ /\ errChan # <<>>
           /\ errChan' = Tail(errChan)
           /\ ret' = Wrap("stdio server error", ServeError(Head(errChan)))

\* main has left the Start function and ended
Ended == mpc \in {"done", "exit.server"}

\* C30 as stated: after a trigger the Start function returns and main ends;
\* StartStdio returns nil; StartHTTP shuts down once under the deadline, or
\* returns the listener error it saw first.
C30_Original ==
    /\ [][StartStdioReturnsNil /\ StartHTTPSteps]_vars
    /\ (Triggered ~> Ended)

\* C30, amended: after a trigger the Start function returns and main ends;
\* StartStdio returns nil unless its select takes a server error that is in
\* errChan at the same time, which it returns as 'stdio server error';
\* StartHTTP shuts down once under the deadline, or returns the listener
\* error it saw first without calling Shutdown.
C30_ShutdownCompletes ==
    /\ [][StartStdioSteps /\ StartHTTPSteps]_vars
    /\ (Triggered ~> Ended)

\* a signal reached both channels, main's goroutine cancelled the context,
\* and StartHTTP has shut down in time and returned nil
C30_Witness ==
    /\ phase = "http"
    /\ delivered >= 1
    /\ ctxDone
    /\ sigChans["transport"] # <<>>
    /\ shutdowns = <<ShutdownTimeout>>
    /\ mpc = "returned"
    /\ ret = NoError

====
